---- MODULE Spec2Model ----
(***************************************************************************)
(* Load-order resolver of the Nmodm mod launcher.                          *)
(*                                                                         *)
(* Models ModConfigManager (src/src/config/mod_config_manager.py): the two *)
(* entity collections `packages` and `natives`, the constraint lists       *)
(* load_after / load_before and the operations that enable, disable and    *)
(* order entities.                                                         *)
(*                                                                         *)
(* Strings are sequences of tokens.  A token is an atomic piece of text    *)
(* ("nrsc.dll", "SeamlessCoop", the path separator "/", the external       *)
(* decoration); str.replace, str.endswith and Path(...).name are computed  *)
(* on the token sequence.  No token of the alphabet is a suffix of another *)
(* one, so suffix tests on tokens agree with suffix tests on characters.   *)
(*                                                                         *)
(* The state machines share the variables:                                 *)
(*   SpecPkg      - the package operations (force-last marker);            *)
(*   SpecNat      - the native operations (force-first marker, fixed       *)
(*                  orders);                                               *)
(*   SpecOrder    - pairwise ordering of natives by                        *)
(*                  set_specific_dll_order;                                *)
(*   SpecLoad     - a loaded profile, removals and reconciliation;         *)
(*   SpecPage     - natives enabled and disabled by the mods page;         *)
(*   SpecResolver - the native operations with set_specific_dll_order;     *)
(*   SpecEntity   - adding, removing and toggling with external names;     *)
(*   SpecProfile  - saving the profile and loading it back;                *)
(*   SpecMods     - the handlers of the mods page with the profile file;   *)
(*   SpecSave     - saves whose open or write fails;                       *)
(*   SpecFailure  - the operations called with names that match nothing;   *)
(*   SpecLaunch   - the launch thread next to the handlers, and            *)
(*                  SpecLaunchLive, in which the thread goes on;           *)
(*   SpecForceLast - is_force_load_last on collections of every shape.     *)
(***************************************************************************)
EXTENDS Integers, Sequences, FiniteSets, TLC

VARIABLES
    packages,           \* self.packages : List[ModPackage]
    natives,            \* self.natives  : List[ModNative]
    external_packages,  \* self.external_packages : {mod_name: full_path}
    external_natives,   \* self.external_natives  : {dll_name: full_path}
    last,               \* the call that produced this state, with its result
    prev,               \* the call before `last`, kept where two consecutive calls matter
    track,              \* monitor of the force-last holder across enable/disable steps
    config_file,        \* content of the profile file self.config_file
    launch_thread,      \* ModGameLaunchThread: position in run() and signals emitted
    mod_comments,       \* self.mod_comments    : {mod_id: comment}
    native_comments     \* self.native_comments : {dll_path: comment}

vars == <<packages, natives, external_packages, external_natives, last, prev, track,
          config_file, launch_thread, mod_comments, native_comments>>

-----------------------------------------------------------------------------
(* Bounds *)

MaxPackages == 3
MaxNatives == 3
\* natives enabled through the mods page
MaxPageNatives == 4
\* natives ordered through the resolver's operations
MaxResolverNatives == 4
\* entities of the add / remove / toggle state machine
MaxEntityPackages == 2
MaxEntityNatives == 2
\* entities of the profile state machine
MaxProfilePackages == 2
MaxProfileNatives == 2
MaxModsPackages == 2
MaxModsNatives == 2
MaxFailurePackages == 2
MaxFailureNatives == 2
MaxForceLastOthers == 5
MaxOrphans == 2

-----------------------------------------------------------------------------
(* Strings *)

\* the decoration " (外部)" appended to externally sourced names
EXT == " (ext)"
SEP == "/"
\* the backslash of Windows paths
BS == "\\"

\* str.replace(" (外部)", "")
StripExternal(s) == SelectSeq(s, LAMBDA t : t # EXT)

\* str.endswith(suffix)
EndsWith(s, suffix) ==
    /\ Len(suffix) <= Len(s)
    /\ SubSeq(s, Len(s) - Len(suffix) + 1, Len(s)) = suffix

\* Path(p).name : the final path segment, after the last path separator of p
\* (the slash, or the backslash of a Windows path) when there is one
PathName(p) ==
    LET LastSep ==
            IF \E i \in 1..Len(p) : p[i] \in {SEP, BS}
            THEN CHOOSE i \in 1..Len(p) :
                     /\ p[i] \in {SEP, BS}
                     /\ \A j \in (i+1)..Len(p) : p[j] \notin {SEP, BS}
            ELSE 0
    IN  SubSeq(p, LastSep + 1, Len(p))

-----------------------------------------------------------------------------
(* Data model *)

\* Optional[...] : None, or a value (a list of constraints, a string)
None == [some |-> FALSE, items |-> <<>>]
Some(s) == [some |-> TRUE, items |-> s]
\* Python truthiness of an Optional list / string: not None and not empty
Truthy(o) == o.some /\ o.items # <<>>
\* `x if x else None`
OrNone(s) == IF s # <<>> THEN Some(s) ELSE None

\* a constraint {"id": ..., "optional": ...}
Dep(id, optional) == [id |-> id, optional |-> optional]

\* the ids named by an Optional constraint list
DepIds(o) == {o.items[i].id : i \in 1..Len(o.items)}

ModPackage(id, source, enabled, is_external) ==
    [id |-> id, source |-> source, load_after |-> None, load_before |-> None,
     enabled |-> enabled, is_external |-> is_external]

\* indices of a sequence, and the first index satisfying a test (0 when none)
Idx(s) == 1..Len(s)
FirstIdx(s, Test(_)) ==
    IF \E i \in Idx(s) : Test(s[i])
    THEN CHOOSE i \in Idx(s) : Test(s[i]) /\ \A j \in 1..(i-1) : ~Test(s[j])
    ELSE 0
LastIdx(s, Test(_)) ==
    IF \E i \in Idx(s) : Test(s[i])
    THEN CHOOSE i \in Idx(s) : Test(s[i]) /\ \A j \in (i+1)..Len(s) : ~Test(s[j])
    ELSE 0

\* del s[i]
DelAt(s, i) == SubSeq(s, 1, i - 1) \o SubSeq(s, i + 1, Len(s))

\* [f(x) for x in s]
MapSeq(s, F(_)) == [i \in Idx(s) |-> F(s[i])]

-----------------------------------------------------------------------------
(* Package operations.  Each takes the collection and the call's arguments  *)
(* and yields the new collection `pk` and the returned value `ret`.         *)

\* variant that looks for the id as given, decoration included
add_package_id_as_given(pk, ext_pk, package_id, source_path, enabled) ==
    LET is_external == EndsWith(package_id, <<EXT>>)
        clean_id == IF is_external THEN StripExternal(package_id) ELSE package_id
        actual_source == IF is_external /\ clean_id \in DOMAIN ext_pk
                         THEN ext_pk[clean_id] ELSE source_path
    IN  IF \E i \in Idx(pk) : pk[i].id = package_id
        THEN [pk |-> pk, ret |-> FALSE]
        ELSE [pk |-> Append(pk, ModPackage(clean_id, actual_source, enabled, is_external)),
              ret |-> TRUE]

add_package(pk, ext_pk, package_id, source_path, enabled) ==
    LET is_external == EndsWith(package_id, <<EXT>>)
        clean_id == IF is_external THEN StripExternal(package_id) ELSE package_id
        actual_source == IF is_external /\ clean_id \in DOMAIN ext_pk
                         THEN ext_pk[clean_id] ELSE source_path
    IN  IF \E i \in Idx(pk) : pk[i].id = clean_id
        THEN [pk |-> pk, ret |-> FALSE]
        ELSE [pk |-> Append(pk, ModPackage(clean_id, actual_source, enabled, is_external)),
              ret |-> TRUE]

remove_package(pk, package_id) ==
    LET clean_id == StripExternal(package_id)
        i == FirstIdx(pk, LAMBDA p : p.id = clean_id)
    IN  IF i = 0 THEN [pk |-> pk, ret |-> FALSE]
        ELSE [pk |-> DelAt(pk, i), ret |-> TRUE]

toggle_package(pk, package_id) ==
    LET clean_id == StripExternal(package_id)
        i == FirstIdx(pk, LAMBDA p : p.id = clean_id)
    IN  IF i = 0 THEN [pk |-> pk, ret |-> FALSE]
        ELSE [pk |-> [pk EXCEPT ![i].enabled = ~pk[i].enabled], ret |-> TRUE]

\* ids of the enabled packages other than clean_id, in collection order
other_enabled_mods(pk, clean_id) ==
    MapSeq(SelectSeq(pk, LAMBDA p : p.enabled /\ p.id # clean_id), LAMBDA p : p.id)

\* variant that names the other packages as required
ForceLastDeps_required(pk, clean_id) ==
    MapSeq(other_enabled_mods(pk, clean_id), LAMBDA id : Dep(id, FALSE))

\* [{"id": mod_id, "optional": True} for mod_id in other_enabled_mods]
ForceLastDeps(pk, clean_id) ==
    MapSeq(other_enabled_mods(pk, clean_id), LAMBDA id : Dep(id, TRUE))

\* variant that leaves the load_after of the other packages in place
set_force_load_last_keep_others(pk, mod_id) ==
    LET clean_id == StripExternal(mod_id)
        t == FirstIdx(pk, LAMBDA p : p.id = clean_id)
    IN  IF t = 0 THEN [pk |-> pk, ret |-> FALSE]
        ELSE [pk |-> [pk EXCEPT ![t].load_after = OrNone(ForceLastDeps(pk, clean_id))],
              ret |-> TRUE]

set_force_load_last(pk, mod_id) ==
    LET clean_id == StripExternal(mod_id)
        t == FirstIdx(pk, LAMBDA p : p.id = clean_id)
        \* `other_pkg != target_package` compares the dataclasses by value
        cleared == [i \in Idx(pk) |->
                      IF pk[i] # pk[t] THEN [pk[i] EXCEPT !.load_after = None] ELSE pk[i]]
    IN  IF t = 0 THEN [pk |-> pk, ret |-> FALSE]
        ELSE [pk |-> [cleared EXCEPT ![t].load_after = OrNone(ForceLastDeps(pk, clean_id))],
              ret |-> TRUE]

clear_force_load_last(pk, mod_id) ==
    LET clean_id == StripExternal(mod_id)
        i == FirstIdx(pk, LAMBDA p : p.id = clean_id)
    IN  IF i = 0 THEN [pk |-> pk, ret |-> FALSE]
        ELSE [pk |-> [pk EXCEPT ![i].load_after = None], ret |-> TRUE]

\* variant for which one listed package suffices whatever the number of others
is_force_load_last_one_suffices(pk, mod_id) ==
    LET clean_id == StripExternal(mod_id)
        t == FirstIdx(pk, LAMBDA p : p.id = clean_id)
        others == {pk[i].id : i \in {j \in Idx(pk) : pk[j].enabled /\ pk[j].id # clean_id}}
        intersection_count == Cardinality(DepIds(pk[t].load_after) \cap others)
    IN  IF t = 0 THEN FALSE
        ELSE IF ~Truthy(pk[t].load_after) THEN FALSE
        ELSE IF Cardinality(others) = 0 THEN FALSE
        ELSE intersection_count >= 1

is_force_load_last(pk, mod_id) ==
    LET clean_id == StripExternal(mod_id)
        t == FirstIdx(pk, LAMBDA p : p.id = clean_id)
        others == {pk[i].id : i \in {j \in Idx(pk) : pk[j].enabled /\ pk[j].id # clean_id}}
        intersection_count == Cardinality(DepIds(pk[t].load_after) \cap others)
    IN  IF t = 0 THEN FALSE
        ELSE IF ~Truthy(pk[t].load_after) THEN FALSE
        ELSE IF Cardinality(others) = 0 THEN FALSE
        ELSE IF Cardinality(others) <= 3 THEN intersection_count >= 1
        ELSE 2 * intersection_count >= Cardinality(others)

_rebuild_force_load_last_dependencies(pk, mod_id) ==
    LET clean_id == StripExternal(mod_id)
        t == FirstIdx(pk, LAMBDA p : p.id = clean_id)
    IN  IF t = 0 THEN pk
        ELSE [pk EXCEPT ![t].load_after = OrNone(ForceLastDeps(pk, clean_id))]

\* variant that appends nothing for the newly enabled package
add_to_load_dependencies_package_no_rebuild(pk) == pk

\* add_to_load_dependencies(_, is_native=False)
add_to_load_dependencies_package(pk) ==
    LET h == FirstIdx(pk, LAMBDA p : p.enabled /\ Truthy(p.load_after)
                                      /\ is_force_load_last(pk, p.id))
    IN  IF h = 0 THEN pk ELSE _rebuild_force_load_last_dependencies(pk, pk[h].id)

\* variant that drops only the first constraint whose id is not in `enabled_ids`
FilterDeps_first_only(o, enabled_ids) ==
    IF Truthy(o)
    THEN LET k == FirstIdx(o.items, LAMBDA d : d.id \notin enabled_ids)
         IN  IF k = 0 THEN o
             ELSE OrNone(SubSeq(o.items, 1, k - 1) \o SubSeq(o.items, k + 1, Len(o.items)))
    ELSE o

\* keep the constraints whose id is in `enabled_ids`; an emptied list becomes None
FilterDeps(o, enabled_ids) ==
    IF Truthy(o)
    THEN OrNone(SelectSeq(o.items, LAMBDA d : d.id \in enabled_ids))
    ELSE o

\* the package half of update_load_dependencies
update_package_dependencies(pk) ==
    LET enabled_package_ids == {pk[i].id : i \in {j \in Idx(pk) : pk[j].enabled}}
    IN  [i \in Idx(pk) |->
           [pk[i] EXCEPT !.load_after = FilterDeps(pk[i].load_after, enabled_package_ids)]]

-----------------------------------------------------------------------------
(* Native operations.  Each takes the collection and the call's arguments   *)
(* and yields the new collection `nt` and the returned value `ret`.         *)

NIGHTER == <<"nighter.dll">>
NRSC == <<"nrsc.dll">>

\* specific_orders = [("nighter.dll", "nrsc.dll")]
specific_orders == << <<NIGHTER, NRSC>> >>

\* `tok in s.lower()`, str.lower() taken token by token
ContainsLower(s, tok) ==
    \E i \in Idx(s) : (IF s[i] = "SeamlessCoop" THEN "seamlesscoop" ELSE s[i]) = tok

\* Path(native.path).name == clean or native.path == clean or native.path.endswith(clean)
MatchNative(n, clean) ==
    PathName(n.path) = clean \/ n.path = clean \/ EndsWith(n.path, clean)

\* the match of remove_native / toggle_native
MatchNativeForRemoval(n, dll_path) ==
    LET clean_path == StripExternal(dll_path)
    IN  \/ n.path = clean_path
        \/ n.path = dll_path
        \/ EndsWith(n.path, clean_path)
        \/ (n.is_external /\ PathName(n.path) = clean_path)

add_native(nt, ext_nt, dll_path, optional, enabled, load_early) ==
    LET is_external == EndsWith(dll_path, <<EXT>>)
        clean_path == IF is_external THEN StripExternal(dll_path) ELSE dll_path
        actual_path == IF is_external /\ clean_path \in DOMAIN ext_nt
                       THEN ext_nt[clean_path] ELSE clean_path
        early == IF ~load_early /\ ContainsLower(clean_path, "seamlesscoop")
                                /\ ContainsLower(clean_path, "nrsc.dll")
                 THEN TRUE ELSE load_early
    IN  IF \E i \in Idx(nt) : nt[i].path = clean_path
        THEN [nt |-> nt, ret |-> FALSE]
        ELSE [nt |-> Append(nt, [path |-> actual_path, optional |-> optional, enabled |-> enabled,
                                  initializer |-> None, finalizer |-> None,
                                  load_after |-> None, load_before |-> None,
                                  load_early |-> early, is_external |-> is_external]),
              ret |-> TRUE]

\* variant that removes the last match
remove_native_last_match(nt, dll_path) ==
    LET i == LastIdx(nt, LAMBDA n : MatchNativeForRemoval(n, dll_path))
    IN  IF i = 0 THEN [nt |-> nt, ret |-> FALSE]
        ELSE [nt |-> DelAt(nt, i), ret |-> TRUE]

remove_native(nt, dll_path) ==
    LET i == FirstIdx(nt, LAMBDA n : MatchNativeForRemoval(n, dll_path))
    IN  IF i = 0 THEN [nt |-> nt, ret |-> FALSE]
        ELSE [nt |-> DelAt(nt, i), ret |-> TRUE]

\* variant that flips every match
toggle_native_every_match(nt, dll_path) ==
    [nt |-> [i \in Idx(nt) |->
                IF MatchNativeForRemoval(nt[i], dll_path)
                THEN [nt[i] EXCEPT !.enabled = ~nt[i].enabled] ELSE nt[i]],
     ret |-> \E i \in Idx(nt) : MatchNativeForRemoval(nt[i], dll_path)]

toggle_native(nt, dll_path) ==
    LET i == FirstIdx(nt, LAMBDA n : MatchNativeForRemoval(n, dll_path))
    IN  IF i = 0 THEN [nt |-> nt, ret |-> FALSE]
        ELSE [nt |-> [nt EXCEPT ![i].enabled = ~nt[i].enabled], ret |-> TRUE]

\* some enabled native named dll_name has target_dll in its load_before
_dll_depends_on(nt, dll_name, target_dll) ==
    \E i \in Idx(nt) :
        /\ nt[i].enabled
        /\ PathName(nt[i].path) = dll_name
        /\ Truthy(nt[i].load_before)
        /\ target_dll \in DepIds(nt[i].load_before)

\* variant that never reports a reverse edge
_would_create_circular_dependency_never(nt, first_dll, second_dll) == FALSE

_would_create_circular_dependency(nt, first_dll, second_dll) ==
    _dll_depends_on(nt, second_dll, first_dll)

_remove_reverse_dependency(nt, from_dll, to_dll) ==
    [i \in Idx(nt) |->
        IF nt[i].enabled /\ PathName(nt[i].path) = from_dll /\ Truthy(nt[i].load_before)
        THEN [nt[i] EXCEPT !.load_before =
                 OrNone(SelectSeq(nt[i].load_before.items, LAMBDA d : d.id # to_dll))]
        ELSE nt[i]]

\* variant that leaves a reverse edge in place
set_specific_dll_order_keep_reverse(nt, first_dll, second_dll) ==
    LET first_clean == StripExternal(first_dll)
        second_clean == StripExternal(second_dll)
        f == LastIdx(nt, LAMBDA n : MatchNative(n, first_clean))
        s == LastIdx(nt, LAMBDA n : ~MatchNative(n, first_clean)
                                    /\ MatchNative(n, second_clean))
        second_dll_name == PathName(nt[s].path)
        lb == IF Truthy(nt[f].load_before) THEN nt[f].load_before.items ELSE <<>>
        already_exists == \E i \in Idx(lb) : lb[i].id = second_dll_name
        lb2 == IF already_exists THEN lb ELSE Append(lb, Dep(second_dll_name, FALSE))
    IN  IF f = 0 \/ s = 0 THEN [nt |-> nt, ret |-> FALSE]
        ELSE IF ~nt[f].enabled \/ ~nt[s].enabled THEN [nt |-> nt, ret |-> FALSE]
        ELSE [nt |-> [nt EXCEPT ![f].load_before = Some(lb2)], ret |-> TRUE]

set_specific_dll_order(nt, first_dll, second_dll) ==
    LET first_clean == StripExternal(first_dll)
        second_clean == StripExternal(second_dll)
        \* the loop has no break: the last match wins, and a native that
        \* matches first_clean is never taken as the second one
        f == LastIdx(nt, LAMBDA n : MatchNative(n, first_clean))
        s == LastIdx(nt, LAMBDA n : ~MatchNative(n, first_clean)
                                    /\ MatchNative(n, second_clean))
        second_dll_name == PathName(nt[s].path)
        first_dll_name == PathName(nt[f].path)
        nt1 == IF _would_create_circular_dependency(nt, first_dll_name, second_dll_name)
               THEN _remove_reverse_dependency(nt, second_dll_name, first_dll_name)
               ELSE nt
        lb == IF Truthy(nt1[f].load_before) THEN nt1[f].load_before.items ELSE <<>>
        already_exists == \E i \in Idx(lb) : lb[i].id = second_dll_name
        lb2 == IF already_exists THEN lb ELSE Append(lb, Dep(second_dll_name, FALSE))
    IN  IF f = 0 \/ s = 0 THEN [nt |-> nt, ret |-> FALSE]
        ELSE IF ~nt[f].enabled \/ ~nt[s].enabled THEN [nt |-> nt, ret |-> FALSE]
        ELSE [nt |-> [nt1 EXCEPT ![f].load_before = Some(lb2)], ret |-> TRUE]

RECURSIVE EnsureFrom(_, _)
EnsureFrom(nt, k) ==
    IF k > Len(specific_orders) THEN nt
    ELSE LET first_dll == specific_orders[k][1]
             second_dll == specific_orders[k][2]
             first_enabled == \E i \in Idx(nt) :
                                 PathName(nt[i].path) = first_dll /\ nt[i].enabled
             second_enabled == \E i \in Idx(nt) :
                                 PathName(nt[i].path) = second_dll /\ nt[i].enabled
         IN  EnsureFrom(IF first_enabled /\ second_enabled
                        THEN set_specific_dll_order(nt, first_dll, second_dll).nt
                        ELSE nt,
                        k + 1)

ensure_specific_dll_orders(nt) == EnsureFrom(nt, 1)

_has_only_specific_order_deps(n) ==
    /\ Truthy(n.load_before)
    /\ \A i \in Idx(n.load_before.items) :
          \E k \in Idx(specific_orders) :
              /\ PathName(n.path) = specific_orders[k][1]
              /\ n.load_before.items[i].id = specific_orders[k][2]

_has_specific_order_dependency(first_dll, second_dll) ==
    \E k \in Idx(specific_orders) :
        specific_orders[k][1] = first_dll /\ specific_orders[k][2] = second_dll

_can_reach_through_chain(nt, from_dll, to_dll) ==
    \E k \in Idx(specific_orders) :
        /\ to_dll = specific_orders[k][2]
        /\ \E i \in Idx(nt) : nt[i].enabled /\ PathName(nt[i].path) = specific_orders[k][1]
        /\ from_dll # specific_orders[k][1]
        /\ from_dll # specific_orders[k][2]

\* variant that keeps every direct edge
_optimize_force_load_dependencies_keep_all(nt, dll_name) == nt

_optimize_force_load_dependencies(nt, dll_name) ==
    LET clean_name == StripExternal(dll_name)
        t == FirstIdx(nt, LAMBDA n : MatchNative(n, clean_name))
        lb == nt[t].load_before.items
        optimized_deps ==
            SelectSeq(lb, LAMBDA dep :
                ~\E j \in Idx(lb) : /\ lb[j].id # dep.id
                                    /\ _dll_depends_on(nt, lb[j].id, dep.id))
    IN  IF t = 0 THEN nt
        ELSE IF ~Truthy(nt[t].load_before) THEN nt
        ELSE [nt EXCEPT ![t].load_before = OrNone(optimized_deps)]

\* variant that names only the natives placed after nt[t] in the collection
other_dlls_later_only(nt, t) ==
    MapSeq(SelectSeq(SubSeq(nt, t + 1, Len(nt)), LAMBDA n : n.enabled /\ n # nt[t]),
           LAMBDA n : PathName(n.path))

\* names of the enabled natives other than nt[t], in collection order
\* (`other_native != target_native` compares the dataclasses by value)
other_dlls(nt, t) ==
    MapSeq(SelectSeq(nt, LAMBDA n : n.enabled /\ n # nt[t]), LAMBDA n : PathName(n.path))

\* [{"id": dll, "optional": False} for dll in dlls]
ForceFirstDeps(dlls) == MapSeq(dlls, LAMBDA dll : Dep(dll, FALSE))

\* variant that takes any non-empty load_before for the marker
is_force_load_first_native_any_list(nt, dll_name) ==
    LET clean_name == StripExternal(dll_name)
    IN  \E i \in Idx(nt) : MatchNative(nt[i], clean_name) /\ Truthy(nt[i].load_before)

\* the first matching native with a non-empty load_before decides: its
\* load_before names every other enabled native
is_force_load_first_native(nt, dll_name) ==
    LET clean_name == StripExternal(dll_name)
        i == FirstIdx(nt, LAMBDA n : MatchNative(n, clean_name) /\ Truthy(n.load_before))
        other_dlls_set == {PathName(nt[j].path) :
                              j \in {k \in Idx(nt) : nt[k].enabled /\ nt[k] # nt[i]}}
    IN  IF i = 0 THEN FALSE
        ELSE other_dlls_set \subseteq DepIds(nt[i].load_before)

\* variant that also clears the lists holding only fixed-order edges
set_force_load_first_native_clear_all(nt, dll_name) ==
    LET clean_name == StripExternal(dll_name)
        t == FirstIdx(nt, LAMBDA n : MatchNative(n, clean_name))
        cleared == [i \in Idx(nt) |->
                      IF nt[i] # nt[t] THEN [nt[i] EXCEPT !.load_before = None] ELSE nt[i]]
        built == [cleared EXCEPT ![t].load_before =
                     OrNone(ForceFirstDeps(other_dlls(cleared, t)))]
        ensured == ensure_specific_dll_orders(built)
        target_dll_name == PathName(nt[t].path)
    IN  IF t = 0 THEN [nt |-> nt, ret |-> FALSE]
        ELSE [nt |-> _optimize_force_load_dependencies(ensured, target_dll_name),
              ret |-> TRUE]

set_force_load_first_native(nt, dll_name) ==
    LET clean_name == StripExternal(dll_name)
        t == FirstIdx(nt, LAMBDA n : MatchNative(n, clean_name))
        \* clear the load_before of the others, keeping fixed-order-only lists
        cleared == [i \in Idx(nt) |->
                      IF nt[i] # nt[t]
                         /\ ~(Truthy(nt[i].load_before) /\ _has_only_specific_order_deps(nt[i]))
                      THEN [nt[i] EXCEPT !.load_before = None]
                      ELSE nt[i]]
        built == [cleared EXCEPT ![t].load_before =
                     OrNone(ForceFirstDeps(other_dlls(cleared, t)))]
        ensured == ensure_specific_dll_orders(built)
        target_dll_name == PathName(nt[t].path)
    IN  IF t = 0 THEN [nt |-> nt, ret |-> FALSE]
        ELSE [nt |-> _optimize_force_load_dependencies(ensured, target_dll_name),
              ret |-> TRUE]

clear_force_load_first_native(nt, dll_name) ==
    LET clean_name == StripExternal(dll_name)
        i == FirstIdx(nt, LAMBDA n : MatchNative(n, clean_name))
    IN  IF i = 0 THEN [nt |-> nt, ret |-> FALSE]
        ELSE [nt |-> [nt EXCEPT ![i].load_before = None], ret |-> TRUE]

_is_force_load_first_config(nt, i) ==
    LET other_enabled_dlls ==
            {PathName(nt[j].path) : j \in {k \in Idx(nt) : nt[k].enabled /\ nt[k] # nt[i]}}
        n == Cardinality(other_enabled_dlls)
        k == Cardinality(DepIds(nt[i].load_before) \cap other_enabled_dlls)
    IN  IF ~Truthy(nt[i].load_before) THEN FALSE
        ELSE IF n = 0 THEN FALSE
        \* k >= max(1, n * 0.6)
        ELSE k >= 1 /\ 10 * k >= 6 * n

_rebuild_force_load_first_dependencies(nt, dll_name) ==
    LET clean_name == StripExternal(dll_name)
        t == FirstIdx(nt, LAMBDA n : MatchNative(n, clean_name))
        target_dll_name == PathName(nt[t].path)
        kept == SelectSeq(other_dlls(nt, t), LAMBDA other_dll_name :
                    /\ ~_has_specific_order_dependency(other_dll_name, target_dll_name)
                    /\ ~_can_reach_through_chain(nt, target_dll_name, other_dll_name))
        built == [nt EXCEPT ![t].load_before = OrNone(ForceFirstDeps(kept))]
    IN  IF t = 0 THEN nt
        ELSE _optimize_force_load_dependencies(ensure_specific_dll_orders(built),
                                               target_dll_name)

\* add_to_load_dependencies(_, is_native=True)
add_to_load_dependencies_native(nt) ==
    LET holder == CHOOSE i \in Idx(nt) :
                     /\ nt[i].enabled /\ Truthy(nt[i].load_before)
                     /\ _is_force_load_first_config(nt, i)
                     /\ \A j \in 1..(i-1) :
                           ~(nt[j].enabled /\ Truthy(nt[j].load_before)
                             /\ _is_force_load_first_config(nt, j))
        rebuilt == IF \E i \in Idx(nt) : /\ nt[i].enabled /\ Truthy(nt[i].load_before)
                                         /\ _is_force_load_first_config(nt, i)
                   THEN _rebuild_force_load_first_dependencies(nt, PathName(nt[holder].path))
                   ELSE nt
    IN  ensure_specific_dll_orders(rebuilt)

\* the native half of update_load_dependencies, before the fixed orders are re-applied
update_native_dependencies(nt) ==
    LET enabled_native_ids == {PathName(nt[i].path) : i \in {j \in Idx(nt) : nt[j].enabled}}
    IN  [i \in Idx(nt) |->
           [nt[i] EXCEPT !.load_before = FilterDeps(nt[i].load_before, enabled_native_ids),
                         !.load_after = FilterDeps(nt[i].load_after, enabled_native_ids)]]

\* variant that does not re-apply the fixed orders
update_load_dependencies_filter_only(pk, nt) ==
    [pk |-> update_package_dependencies(pk),
     nt |-> update_native_dependencies(nt)]

update_load_dependencies(pk, nt) ==
    [pk |-> update_package_dependencies(pk),
     nt |-> ensure_specific_dll_orders(update_native_dependencies(nt))]

-----------------------------------------------------------------------------
(* Profile loading.  A profile document is the parsed content of the        *)
(* profile file: `kind` tells whether the file is missing, is not valid     *)
(* TOML, or parses; an entry with ok = FALSE lacks its mandatory key (id,   *)
(* path), so that reading it raises.                                        *)

\* ModPackage(...) of one [[packages]] entry
ParsePackage(e, ext_pk) ==
    [id |-> e.id, source |-> e.source,
     load_after |-> e.load_after, load_before |-> e.load_before,
     \* pkg_data.get('enabled', True)
     enabled |-> e.enabled # "false",
     is_external |-> e.id \in DOMAIN ext_pk]

\* ModNative(...) of one [[natives]] entry
ParseNative(e, ext_nt) ==
    [path |-> e.path, optional |-> e.optional,
     enabled |-> e.enabled # "false",
     initializer |-> e.initializer, finalizer |-> e.finalizer,
     load_after |-> e.load_after, load_before |-> e.load_before,
     load_early |-> e.load_early,
     is_external |-> \/ \E k \in DOMAIN ext_nt : ext_nt[k] = e.path
                     \/ PathName(e.path) \in DOMAIN ext_nt]

\* load_config: the collections are replaced entry by entry; an exception
\* stops the loading where it is raised and makes the call return False
load_config(pk, nt, ext_pk, ext_nt, doc) ==
    LET bp == FirstIdx(doc.packages, LAMBDA e : ~e.ok)
        bn == FirstIdx(doc.natives, LAMBDA e : ~e.ok)
        pkgs(n) == [i \in 1..n |-> ParsePackage(doc.packages[i], ext_pk)]
        nats(n) == [i \in 1..n |-> ParseNative(doc.natives[i], ext_nt)]
    IN  IF doc.kind = "missing" THEN [pk |-> <<>>, nt |-> <<>>, ret |-> TRUE]
        ELSE IF doc.kind = "invalid" THEN [pk |-> pk, nt |-> nt, ret |-> FALSE]
        ELSE IF bp # 0 THEN [pk |-> pkgs(bp - 1), nt |-> nt, ret |-> FALSE]
        ELSE IF bn # 0 THEN [pk |-> pkgs(Len(doc.packages)), nt |-> nats(bn - 1),
                             ret |-> FALSE]
        ELSE [pk |-> pkgs(Len(doc.packages)), nt |-> nats(Len(doc.natives)),
              ret |-> TRUE]

-----------------------------------------------------------------------------
(* Profile saving.  save_config collects the enabled entities and their     *)
(* non-empty fields, _write_custom_toml writes them as TOML text, in which  *)
(* a string stands between quotes, and toml.load reads the text back.  The  *)
(* alphabet has no quote character.                                         *)

\* str.replace("\\", "\\\\")
RECURSIVE EscapeBackslash(_)
EscapeBackslash(s) ==
    IF s = <<>> THEN <<>>
    ELSE (IF Head(s) = BS THEN <<BS, BS>> ELSE <<Head(s)>>) \o EscapeBackslash(Tail(s))

\* variant that writes the string as it is
WritePath_as_is(s) == s

\* the text written for a source / path
WritePath(s) == EscapeBackslash(s)

\* the value toml.load reads from the text of a basic string: two backslashes
\* stand for one, a backslash before anything else is not a valid escape
RECURSIVE TomlBasicString(_)
TomlBasicString(w) ==
    IF w = <<>> THEN [ok |-> TRUE, s |-> <<>>]
    ELSE IF Head(w) # BS
    THEN LET r == TomlBasicString(Tail(w))
         IN  [ok |-> r.ok, s |-> <<Head(w)>> \o r.s]
    ELSE IF Len(w) >= 2 /\ w[2] = BS
    THEN LET r == TomlBasicString(SubSeq(w, 3, Len(w)))
         IN  [ok |-> r.ok, s |-> <<BS>> \o r.s]
    ELSE [ok |-> FALSE, s |-> <<>>]

\* config_data of save_config: the enabled entities, in collection order
save_config(pk, nt) ==
    [packages |-> SelectSeq(pk, LAMBDA p : p.enabled),
     natives |-> SelectSeq(nt, LAMBDA n : n.enabled)]

\* the text of a constraint list: the id as it is, optional as true / false
_format_load_after(dependencies) ==
    MapSeq(dependencies, LAMBDA dep : [id |-> dep.id, optional |-> dep.optional])

\* a field written only when it is truthy
WriteList(o) == IF Truthy(o) THEN Some(_format_load_after(o.items)) ELSE None
WriteString(o) == IF Truthy(o) THEN o ELSE None

\* the text of the profile file
_write_custom_toml(config_data) ==
    [kind |-> "ok",
     packages |-> MapSeq(config_data.packages, LAMBDA package :
                     [id |-> package.id,
                      source |-> WritePath(package.source),
                      load_after |-> WriteList(package.load_after),
                      load_before |-> WriteList(package.load_before)]),
     natives |-> MapSeq(config_data.natives, LAMBDA native :
                     [path |-> WritePath(native.path),
                      optional |-> native.optional,
                      initializer |-> WriteString(native.initializer),
                      finalizer |-> WriteString(native.finalizer),
                      load_after |-> WriteList(native.load_after),
                      load_before |-> WriteList(native.load_before),
                      load_early |-> native.load_early])]

\* the strings of a constraint list as written
ListStrings(o) == {o.items[i].id : i \in Idx(o.items)}
ReadList(o) ==
    IF o.some
    THEN Some(MapSeq(o.items, LAMBDA d : Dep(TomlBasicString(d.id).s, d.optional)))
    ELSE None
ReadString(o) == IF o.some THEN Some(TomlBasicString(o.items).s) ELSE None

\* toml.load of the profile text: config_data as load_config reads it, or a
\* text that is not valid TOML
toml_load(text) ==
    LET strings ==
            UNION {{text.packages[i].id, text.packages[i].source}
                      \cup ListStrings(text.packages[i].load_after)
                      \cup ListStrings(text.packages[i].load_before) :
                   i \in Idx(text.packages)}
            \cup
            UNION {{text.natives[i].path, text.natives[i].initializer.items,
                    text.natives[i].finalizer.items}
                      \cup ListStrings(text.natives[i].load_after)
                      \cup ListStrings(text.natives[i].load_before) :
                   i \in Idx(text.natives)}
    IN  IF \E w \in strings : ~TomlBasicString(w).ok
        THEN [kind |-> "invalid", packages |-> <<>>, natives |-> <<>>]
        ELSE [kind |-> "ok",
              packages |-> MapSeq(text.packages, LAMBDA e :
                              [ok |-> TRUE,
                               id |-> TomlBasicString(e.id).s,
                               source |-> TomlBasicString(e.source).s,
                               load_after |-> ReadList(e.load_after),
                               load_before |-> ReadList(e.load_before),
                               enabled |-> "absent"]),
              natives |-> MapSeq(text.natives, LAMBDA e :
                              [ok |-> TRUE,
                               path |-> TomlBasicString(e.path).s,
                               optional |-> e.optional,
                               enabled |-> "absent",
                               initializer |-> ReadString(e.initializer),
                               finalizer |-> ReadString(e.finalizer),
                               load_after |-> ReadList(e.load_after),
                               load_before |-> ReadList(e.load_before),
                               load_early |-> e.load_early])]


\* the profile file that was never written
NoFile == [kind |-> "missing", packages |-> <<>>, natives |-> <<>>]

\* what the file system does to one save: nothing (at "none"), open() raises
\* (at "open"), or a write raises after k entity tables went to the file (at
\* "write"; a table cut short counts as not written)
NoFault == [at |-> "none", k |-> 0]

\* save_config(): open(config_file, 'w') truncates the file, _write_custom_toml
\* writes into it, any exception makes the result False
save_config_file(pk, nt, file, fault) ==
    LET text == _write_custom_toml(save_config(pk, nt))
        \* the entity tables written before the exception, packages first
        np == IF fault.k < Len(text.packages) THEN fault.k ELSE Len(text.packages)
        nn == IF fault.k - np < Len(text.natives) THEN fault.k - np
              ELSE Len(text.natives)
    IN  IF fault.at = "none" THEN [file |-> text, ret |-> TRUE]
        ELSE IF fault.at = "open" THEN [file |-> file, ret |-> FALSE]
        ELSE [file |-> [kind |-> "ok",
                        packages |-> SubSeq(text.packages, 1, np),
                        natives |-> SubSeq(text.natives, 1, nn)],
              ret |-> FALSE]

-----------------------------------------------------------------------------
(* Inputs *)

\* names as the callers pass them: plain, or decorated as external
PackageArgs == {<<"A">>, <<"B">>, <<"C">>, <<"D">>, <<"D", EXT>>}

\* native paths as the directory scan yields them, relative to the Mods
\* directory: a DLL at the top level by its file name, a DLL of a mod folder
\* by folder/file.  File names are pairwise distinct, as get_all_dll_names /
\* add_external_native maintain for the DLLs they register.
NativePaths == {NIGHTER, <<"SeamlessCoop", SEP, "nrsc.dll">>, <<"a.dll">>, <<"b.dll">>}
\* a native is named by its path or by its file name
NativeArgs == NativePaths \cup {NRSC}

\* the natives and the names used to order pairs of them
OrderArgs == {NIGHTER, NRSC, <<"a.dll">>}

NoArg == <<>>
Call(op, a, b, ret) == [op |-> op, a |-> a, b |-> b, ret |-> ret]
NoCall == Call("init", NoArg, NoArg, TRUE)

\* the launch thread before it is started
NoThread ==
    [pc |-> "idle", signals |-> <<>>, saved |-> FALSE, script |-> FALSE,
     launched |-> FALSE, returned |-> FALSE,
     pending |-> [file |-> [kind |-> "missing", packages |-> <<>>, natives |-> <<>>],
                  ret |-> FALSE],
     cleanup |-> "none", orphans |-> 0]

\* the previous call, kept for the two-call sequences: a removal followed by
\* update_load_dependencies, two set_specific_dll_order in a row, and
\* set_force_load_first_native followed by add_native
PrevFor(op, l) ==
    IF op = "update_load_dependencies" /\ l.op \in {"remove_package", "remove_native"}
    THEN l
    ELSE IF op = "set_specific_dll_order" /\ l.op = "set_specific_dll_order"
    THEN l
    ELSE IF op = "add_native" /\ l.op = "set_force_load_first_native"
    THEN l
    ELSE NoCall

\* entries of a profile document
PkgData(id, load_after, load_before) ==
    [ok |-> TRUE, id |-> id, source |-> id \o <<SEP>>,
     load_after |-> load_after, load_before |-> load_before, enabled |-> "absent"]
NatData(path, load_after, load_before) ==
    [ok |-> TRUE, path |-> path, optional |-> FALSE, enabled |-> "absent",
     initializer |-> None, finalizer |-> None,
     load_after |-> load_after, load_before |-> load_before, load_early |-> FALSE]

\* the profile file: missing, not valid TOML, or one of two valid profiles
Profiles ==
    {NoFile,
     [kind |-> "invalid", packages |-> <<>>, natives |-> <<>>],
     \* a profile whose entities carry constraints of both directions
     [kind |-> "ok",
      packages |-> << PkgData(<<"A">>, None, Some(<<Dep(<<"C">>, FALSE)>>)),
                      PkgData(<<"B">>, Some(<<Dep(<<"A">>, TRUE), Dep(<<"C">>, TRUE)>>), None),
                      PkgData(<<"C">>, None, None) >>,
      natives |-> << NatData(NIGHTER, None, Some(<<Dep(NRSC, FALSE)>>)),
                     NatData(<<"SeamlessCoop", SEP, "nrsc.dll">>,
                             Some(<<Dep(<<"a.dll">>, TRUE)>>), None),
                     NatData(<<"a.dll">>, None, Some(<<Dep(NIGHTER, FALSE), Dep(NRSC, FALSE)>>)) >>],
     \* a profile whose second package entry has no id
     [kind |-> "ok",
      packages |-> << PkgData(<<"B">>, None, None),
                      [PkgData(NoArg, None, None) EXCEPT !.ok = FALSE] >>,
      natives |-> << NatData(<<"a.dll">>, None, None) >>]}

-----------------------------------------------------------------------------
(* Monitor of the force-last holder: `holder` is the package on which       *)
(* set_force_load_last last succeeded while another package was enabled,    *)
(* as long as only enable steps (add_package then add_to_load_dependencies) *)
(* and disable steps (remove_package of another package then                *)
(* update_load_dependencies) have run since and another package stayed      *)
(* enabled; `phase` is "steady" between steps and names the half-done step  *)
(* inside one.                                                              *)

NoTrack == [holder |-> NoArg, phase |-> "idle"]

OtherEnabled(pk, id) == \E i \in Idx(pk) : pk[i].enabled /\ pk[i].id # id

TrackNext(op, a, ret, pk) ==
    IF op = "set_force_load_last"
    THEN IF ret /\ OtherEnabled(pk, StripExternal(a))
         THEN [holder |-> StripExternal(a), phase |-> "steady"]
         ELSE NoTrack
    ELSE IF track.phase = "steady" /\ op = "add_package"
    THEN [track EXCEPT !.phase = "adding"]
    ELSE IF track.phase = "adding" /\ op = "add_to_load_dependencies"
    THEN [track EXCEPT !.phase = "steady"]
    ELSE IF track.phase = "steady" /\ op = "remove_package"
            /\ StripExternal(a) # track.holder /\ OtherEnabled(pk, track.holder)
    THEN [track EXCEPT !.phase = "removing"]
    ELSE IF track.phase = "removing" /\ op = "update_load_dependencies"
    THEN [track EXCEPT !.phase = "steady"]
    ELSE NoTrack

-----------------------------------------------------------------------------
(* State machine *)

EmptyDict == [x \in {} |-> NoArg]

Init ==
    /\ packages = <<>>
    /\ natives = <<>>
    /\ external_packages = EmptyDict
    /\ external_natives = EmptyDict
    /\ mod_comments = EmptyDict
    /\ native_comments = EmptyDict
    /\ last = NoCall
    /\ prev = NoCall
    /\ track = NoTrack
    /\ config_file = NoFile
    /\ launch_thread = NoThread

\* a call on the package collection
PackageCall(op, a, r) ==
    /\ packages' = r.pk
    /\ last' = Call(op, a, NoArg, r.ret)
    /\ prev' = PrevFor(op, last)
    /\ track' = TrackNext(op, a, r.ret, r.pk)
    /\ UNCHANGED <<natives, external_packages, external_natives, mod_comments,
                   native_comments, config_file, launch_thread>>

\* a call on the native collection
NativeCall(op, a, b, r) ==
    /\ natives' = r.nt
    /\ last' = Call(op, a, b, r.ret)
    /\ prev' = PrevFor(op, last)
    /\ track' = NoTrack
    /\ UNCHANGED <<packages, external_packages, external_natives, mod_comments,
                   native_comments, config_file, launch_thread>>

RemovePackage(id) == PackageCall("remove_package", id, remove_package(packages, id))

TogglePackage(id) == PackageCall("toggle_package", id, toggle_package(packages, id))

SetForceLoadLast(id) ==
    PackageCall("set_force_load_last", id, set_force_load_last(packages, id))

ClearForceLoadLast(id) ==
    PackageCall("clear_force_load_last", id, clear_force_load_last(packages, id))

UpdateLoadDependencies ==
    LET r == update_load_dependencies(packages, natives)
    IN  /\ packages' = r.pk
        /\ natives' = r.nt
        /\ last' = Call("update_load_dependencies", NoArg, NoArg, TRUE)
        /\ prev' = PrevFor("update_load_dependencies", last)
        /\ track' = TrackNext("update_load_dependencies", NoArg, TRUE, r.pk)
        /\ UNCHANGED <<external_packages, external_natives, mod_comments,
                       native_comments, config_file, launch_thread>>

NextPkg ==
    \* ModsPage.toggle_package passes source f"{package_name}/" and the default
    \* enabled=True
    \/ /\ Len(packages) < MaxPackages
       /\ \E id \in PackageArgs :
             PackageCall("add_package", id,
                         add_package(packages, external_packages, id, id \o <<SEP>>, TRUE))
    \/ \E id \in PackageArgs : RemovePackage(id)
    \/ \E id \in PackageArgs : TogglePackage(id)
    \/ \E id \in PackageArgs : SetForceLoadLast(id)
    \/ \E id \in PackageArgs : ClearForceLoadLast(id)
    \/ \E id \in PackageArgs :
          PackageCall("add_to_load_dependencies", id,
                      [pk |-> add_to_load_dependencies_package(packages), ret |-> TRUE])
    \/ UpdateLoadDependencies

SpecPkg == Init /\ [][NextPkg]_vars

-----------------------------------------------------------------------------
(* Properties of the package collection *)

PkgIdx(id) == FirstIdx(packages, LAMBDA p : p.id = id)

\* the packages that is_force_load_last recognises as holders of the marker
ForceLastHolders == {i \in Idx(packages) : is_force_load_last(packages, packages[i].id)}

\* C2: force-last uniqueness -- in every state reached from the empty
\* configuration by the package operations, at most one package satisfies
\* is_force_load_last.
C2_ForceLastUnique == Cardinality(ForceLastHolders) <= 1

\* a second set_force_load_last has moved the marker while three packages are enabled
C2_Witness ==
    /\ last.op = "set_force_load_last" /\ last.ret
    /\ Cardinality(ForceLastHolders) = 1
    /\ Cardinality({i \in Idx(packages) : packages[i].enabled}) >= 3
    /\ \E i \in Idx(packages) : i # PkgIdx(StripExternal(last.a)) /\ i < PkgIdx(StripExternal(last.a))

\* the enabled packages other than `id`, in collection order
EnabledOthers(id) == SelectSeq(packages, LAMBDA p : p.enabled /\ p.id # id)

\* C3: when set_force_load_last(X) succeeds, X.load_after is exactly the ids
\* of all other currently enabled packages, in collection order, each with
\* optional = true (absent when there is none), and the load_after of every
\* other package is absent.
C3_SetForceLoadLastExact ==
    (last.op = "set_force_load_last" /\ last.ret) =>
        LET X == StripExternal(last.a)
            others == EnabledOthers(X)
            la == packages[PkgIdx(X)].load_after
        IN  /\ PkgIdx(X) # 0
            /\ IF others = <<>> THEN la = None
               ELSE /\ la.some
                    /\ Len(la.items) = Len(others)
                    /\ \A i \in Idx(others) :
                          la.items[i] = [id |-> others[i].id, optional |-> TRUE]
            /\ \A i \in Idx(packages) : i # PkgIdx(X) => packages[i].load_after = None

\* set_force_load_last succeeded on the middle one of three enabled packages
C3_Witness ==
    /\ last.op = "set_force_load_last" /\ last.ret
    /\ Len(packages) = 3
    /\ PkgIdx(StripExternal(last.a)) = 2
    /\ \A i \in Idx(packages) : packages[i].enabled

\* the ids named by the holder's load_after are exactly the other enabled
\* packages, each named as optional
HolderExact(X) ==
    LET la == packages[PkgIdx(X)].load_after
    IN  /\ PkgIdx(X) # 0
        /\ DepIds(la) = {packages[i].id : i \in {j \in Idx(packages) :
                                             packages[j].enabled /\ packages[j].id # X}}
        /\ \A i \in Idx(la.items) : la.items[i].optional

\* C4 as claimed: after set_force_load_last(X) succeeded with another package
\* enabled, and any sequence of enable steps (add_package; add_to_load_dependencies)
\* and disable steps of other packages (remove_package; update_load_dependencies)
\* that keep another package enabled, X.load_after names exactly the other
\* enabled packages, each optional.
C4_Claimed == (track.phase = "steady") => HolderExact(track.holder)

\* C4 as amended: the same, for a holder X that is itself enabled.
C4_ForceLastFollowsEnableDisable ==
    (track.phase = "steady" /\ PkgIdx(track.holder) # 0
        /\ packages[PkgIdx(track.holder)].enabled)
    => HolderExact(track.holder)

\* an enable step has just completed and the holder names the new package
C4_Witness ==
    /\ track.phase = "steady"
    /\ last.op = "add_to_load_dependencies"
    /\ packages[PkgIdx(track.holder)].enabled
    /\ Len(packages) = 3
    /\ packages[3].id = StripExternal(last.a)
    /\ packages[3].id \in DepIds(packages[PkgIdx(track.holder)].load_after)

-----------------------------------------------------------------------------
(* Native state machine *)

\* ModsPage.toggle_native calls add_native(dll_name) with the defaults,
\* dll_name being a path of the directory scan
AddNative(path) ==
    /\ Len(natives) < MaxNatives
    /\ NativeCall("add_native", path, NoArg,
                  add_native(natives, external_natives, path, FALSE, TRUE, FALSE))

RemoveNative(path) ==
    NativeCall("remove_native", path, NoArg, remove_native(natives, path))

ToggleNative(path) ==
    NativeCall("toggle_native", path, NoArg, toggle_native(natives, path))

SetForceLoadFirstNative(name) ==
    NativeCall("set_force_load_first_native", name, NoArg,
               set_force_load_first_native(natives, name))

ClearForceLoadFirstNative(name) ==
    NativeCall("clear_force_load_first_native", name, NoArg,
               clear_force_load_first_native(natives, name))

SetSpecificDllOrder(first_dll, second_dll) ==
    NativeCall("set_specific_dll_order", first_dll, second_dll,
               set_specific_dll_order(natives, first_dll, second_dll))

AddToLoadDependenciesNative(id) ==
    NativeCall("add_to_load_dependencies", id, NoArg,
               [nt |-> add_to_load_dependencies_native(natives), ret |-> TRUE])

NextNat ==
    \/ \E p \in NativePaths : AddNative(p)
    \/ \E p \in NativeArgs : RemoveNative(p)
    \/ \E p \in NativeArgs : ToggleNative(p)
    \/ \E p \in NativeArgs : SetForceLoadFirstNative(p)
    \/ \E p \in NativeArgs : ClearForceLoadFirstNative(p)
    \/ \E p \in NativeArgs : AddToLoadDependenciesNative(p)
    \/ NativeCall("ensure_specific_dll_orders", NoArg, NoArg,
                  [nt |-> ensure_specific_dll_orders(natives), ret |-> TRUE])
    \/ UpdateLoadDependencies

SpecNat == Init /\ [][NextNat]_vars

-----------------------------------------------------------------------------
(* Pairwise order state machine *)

NextOrder ==
    \/ \E p \in NativePaths \ {<<"b.dll">>} : AddNative(p)
    \/ \E p \in OrderArgs : ToggleNative(p)
    \/ \E p \in OrderArgs, q \in OrderArgs : SetSpecificDllOrder(p, q)

SpecOrder == Init /\ [][NextOrder]_vars

-----------------------------------------------------------------------------
(* Profile state machine *)

\* load_config() of the profile file, whose content is any of the profiles
LoadConfig(doc) ==
    LET r == load_config(packages, natives, external_packages, external_natives, doc)
    IN  /\ packages' = r.pk
        /\ natives' = r.nt
        /\ last' = Call("load_config", NoArg, NoArg, r.ret)
        /\ prev' = NoCall
        /\ track' = NoTrack
        /\ UNCHANGED <<external_packages, external_natives, mod_comments,
                       native_comments, config_file, launch_thread>>

NextLoad ==
    \/ \E doc \in Profiles : LoadConfig(doc)
    \/ \E id \in PackageArgs : RemovePackage(id)
    \/ \E p \in NativeArgs : RemoveNative(p)
    \/ \E p \in NativeArgs : ToggleNative(p)
    \/ UpdateLoadDependencies

SpecLoad == Init /\ [][NextLoad]_vars

-----------------------------------------------------------------------------
(* Mods page state machine: natives are enabled and disabled by the page's  *)
(* handler, which follows add_native by add_to_load_dependencies and        *)
(* remove_native by update_load_dependencies.                               *)

PageArgs == NativePaths \cup {<<"x.dll">>, NRSC}


\* the file system outcomes of one save
Faults ==
    {NoFault, [at |-> "open", k |-> 0], [at |-> "write", k |-> 0],
     [at |-> "write", k |-> 1]}

\* del self.external_packages[mod_name]; return self.save_external_mods()
remove_external_package(ext_pk, mod_name, saved) ==
    IF mod_name \in DOMAIN ext_pk
    THEN [ext |-> [x \in DOMAIN ext_pk \ {mod_name} |-> ext_pk[x]], ret |-> saved]
    ELSE [ext |-> ext_pk, ret |-> FALSE]

remove_external_native(ext_nt, dll_name, saved) ==
    IF dll_name \in DOMAIN ext_nt
    THEN [ext |-> [x \in DOMAIN ext_nt \ {dll_name} |-> ext_nt[x]], ret |-> saved]
    ELSE [ext |-> ext_nt, ret |-> FALSE]

\* variant that reports success when no native matches
set_native_load_early_unmatched_true(nt, dll_name, enabled) ==
    LET clean_name == StripExternal(dll_name)
        i == FirstIdx(nt, LAMBDA n : MatchNative(n, clean_name))
    IN  IF i = 0 THEN [nt |-> nt, ret |-> TRUE]
        ELSE [nt |-> [nt EXCEPT ![i].load_early = enabled], ret |-> TRUE]

set_native_load_early(nt, dll_name, enabled) ==
    LET clean_name == StripExternal(dll_name)
        i == FirstIdx(nt, LAMBDA n : MatchNative(n, clean_name))
    IN  IF i = 0 THEN [nt |-> nt, ret |-> FALSE]
        ELSE [nt |-> [nt EXCEPT ![i].load_early = enabled], ret |-> TRUE]

\* the state a handler leaves: the collections and registries as the manager
\* calls made them, the profile file as save_config() made it when the handler
\* reached its save_config() (saves), untouched otherwise
Handler(op, a, b, pk, nt, ext_pk, ext_nt, saves, fault) ==
    /\ packages' = pk
    /\ natives' = nt
    /\ external_packages' = ext_pk
    /\ external_natives' = ext_nt
    /\ \E saved \in {IF saves
                     THEN save_config_file(packages', natives', config_file, fault)
                     ELSE [file |-> config_file, ret |-> TRUE]} :
          /\ config_file' = saved.file
          /\ last' = Call(op, a, b, saved.ret)
    /\ prev' = NoCall
    \* the package on which ModsPage.set_force_load_last last succeeded, kept
    \* while the handlers that follow enable and disable other packages
    /\ track' = IF op = "ModsPage.set_force_load_last"
                THEN IF saves THEN [holder |-> StripExternal(a), phase |-> "marked"]
                     ELSE NoTrack
                ELSE IF /\ op = "ModsPage.toggle_package"
                        /\ track.phase = "marked"
                        /\ StripExternal(a) # track.holder
                THEN track
                ELSE NoTrack
    \* remove_external_package / remove_external_native delete the comment of
    \* the entry they delete
    /\ mod_comments' = [x \in DOMAIN mod_comments
                            \ (DOMAIN external_packages \ DOMAIN ext_pk)
                        |-> mod_comments[x]]
    /\ native_comments' = [x \in DOMAIN native_comments
                               \ (DOMAIN external_natives \ DOMAIN ext_nt)
                           |-> native_comments[x]]
    /\ UNCHANGED launch_thread

\* ModsPage.toggle_package(package_name, enabled)
ModsPage_toggle_package(package_name, enabled, fault) ==
    \E r \in {IF enabled
              THEN [pk |-> add_to_load_dependencies_package(
                              add_package(packages, external_packages, package_name,
                                          package_name \o <<SEP>>, TRUE).pk),
                    nt |-> natives]
              ELSE update_load_dependencies(remove_package(packages, package_name).pk,
                                            natives)} :
        /\ enabled => Len(packages) < MaxModsPackages
        /\ Handler("ModsPage.toggle_package", package_name,
                   IF enabled THEN <<"True">> ELSE <<"False">>, r.pk, r.nt,
                   external_packages, external_natives, TRUE, fault)

\* ModsPage.toggle_native(dll_name, enabled)
ModsPage_toggle_native(dll_name, enabled, fault) ==
    \E r \in {IF enabled
              THEN [pk |-> packages,
                    nt |-> add_to_load_dependencies_native(
                              add_native(natives, external_natives, dll_name,
                                         FALSE, TRUE, FALSE).nt)]
              ELSE update_load_dependencies(packages,
                                            remove_native(natives, dll_name).nt)} :
        /\ enabled => Len(natives) < MaxPageNatives
        /\ Handler("ModsPage.toggle_native", dll_name,
                   IF enabled THEN <<"True">> ELSE <<"False">>, r.pk, r.nt,
                   external_packages, external_natives, TRUE, fault)

ModsPage_set_force_load_last(mod_name, fault) ==
    \E r \in {set_force_load_last(packages, mod_name)} :
        Handler("ModsPage.set_force_load_last", mod_name, NoArg, r.pk, natives,
                external_packages, external_natives, r.ret, fault)

ModsPage_clear_force_load_last(mod_name, fault) ==
    \E r \in {clear_force_load_last(packages, mod_name)} :
        Handler("ModsPage.clear_force_load_last", mod_name, NoArg, r.pk, natives,
                external_packages, external_natives, r.ret, fault)

ModsPage_set_force_load_first_native(dll_name, fault) ==
    \E r \in {set_force_load_first_native(natives, dll_name)} :
        Handler("ModsPage.set_force_load_first_native", dll_name, NoArg, packages, r.nt,
                external_packages, external_natives, r.ret, fault)

ModsPage_clear_force_load_first_native(dll_name, fault) ==
    \E r \in {clear_force_load_first_native(natives, dll_name)} :
        Handler("ModsPage.clear_force_load_first_native", dll_name, NoArg, packages, r.nt,
                external_packages, external_natives, r.ret, fault)

ModsPage_toggle_load_early(dll_name, enabled, fault) ==
    \E r \in {set_native_load_early(natives, dll_name, enabled)} :
        Handler("ModsPage.toggle_load_early", dll_name, IF enabled THEN <<"True">> ELSE <<"False">>,
                packages, r.nt, external_packages, external_natives, r.ret, fault)

\* packages.clear(); natives.clear(); save_config()
ModsPage_clear_all_mods(fault) ==
    Handler("ModsPage.clear_all_mods", NoArg, NoArg, <<>>, <<>>,
            external_packages, external_natives, TRUE, fault)

\* remove_external_package(mod_name), then remove_package(mod_name) and
\* scan_mods(), which rebuilds the lists of the page; saved is the result of
\* save_external_mods()
ModsPage_remove_external_mod(mod_name, saved) ==
    \E r \in {remove_external_package(external_packages, mod_name, saved)} :
        Handler("ModsPage.remove_external_mod", mod_name, NoArg,
                IF r.ret THEN remove_package(packages, mod_name).pk ELSE packages,
                natives, r.ext, external_natives, FALSE, NoFault)

ModsPage_remove_external_dll(dll_name, saved) ==
    \E r \in {remove_external_native(external_natives, dll_name, saved)} :
        Handler("ModsPage.remove_external_dll", dll_name, NoArg, packages,
                IF r.ret THEN remove_native(natives, dll_name).nt ELSE natives,
                external_packages, r.ext, FALSE, NoFault)

\* ModsPage.save_config(): the result of mod_manager.save_config()
ModsPage_save_config(fault) ==
    Handler("ModsPage.save_config", NoArg, NoArg, packages, natives,
            external_packages, external_natives, TRUE, fault)

NextPage ==
    \/ \E p \in NativePaths \cup {<<"x.dll">>} : ModsPage_toggle_native(p, TRUE, NoFault)
    \/ \E p \in PageArgs : ModsPage_toggle_native(p, FALSE, NoFault)
    \/ \E p \in PageArgs : ModsPage_set_force_load_first_native(p, NoFault)
    \/ \E p \in PageArgs : ModsPage_clear_force_load_first_native(p, NoFault)

SpecPage == Init /\ [][NextPage]_vars

-----------------------------------------------------------------------------
(* Resolver state machine: the native operations of the manager, called in  *)
(* any order.                                                               *)

\* the names given to the single-name operations, and to set_specific_dll_order
ResolverArgs == {NIGHTER, NRSC}

AddNativeUpTo(path, n) ==
    /\ Len(natives) < n
    /\ NativeCall("add_native", path, NoArg,
                  add_native(natives, external_natives, path, FALSE, TRUE, FALSE))

NextResolver ==
    \/ \E p \in NativePaths : AddNativeUpTo(p, MaxResolverNatives)
    \/ \E p \in ResolverArgs : RemoveNative(p)
    \/ \E p \in ResolverArgs : SetForceLoadFirstNative(p)
    \/ \E p \in ResolverArgs : ClearForceLoadFirstNative(p)
    \/ \E p \in {NIGHTER, <<"a.dll">>}, q \in {NIGHTER, <<"a.dll">>} :
          SetSpecificDllOrder(p, q)
    \/ \E p \in ResolverArgs : AddToLoadDependenciesNative(p)
    \/ UpdateLoadDependencies

SpecResolver == Init /\ [][NextResolver]_vars

-----------------------------------------------------------------------------
(* Entity state machine: adding, removing and toggling packages and natives *)
(* by plain and by decorated names, with the external registry that the     *)
(* constructor loads.                                                       *)

\* the registries are external_mods.json as load_external_mods reads it
InitEntity ==
    /\ packages = <<>>
    /\ natives = <<>>
    /\ external_packages = [x \in {<<"D">>} |-> <<"ext", SEP, "D">>]
    /\ external_natives = [x \in {<<"e.dll">>} |-> <<"ext", SEP, "e.dll">>]
    /\ mod_comments = EmptyDict
    /\ native_comments = EmptyDict
    /\ last = NoCall
    /\ prev = NoCall
    /\ track = NoTrack
    /\ config_file = NoFile
    /\ launch_thread = NoThread

EntityPackageArgs == {<<"A">>, <<"D">>, <<"D", EXT>>}
EntityNativeArgs == {<<"a.dll">>, NRSC, <<"e.dll", EXT>>, <<"e.dll">>}

\* a call; `prev` keeps the call before it when that was the same call
EntityCall(op, a, pk, nt, ret) ==
    /\ packages' = pk
    /\ natives' = nt
    /\ last' = Call(op, a, NoArg, ret)
    /\ prev' = IF last.op = op /\ last.a = a THEN last ELSE NoCall
    /\ track' = NoTrack
    /\ UNCHANGED <<external_packages, external_natives, mod_comments, native_comments,
                   config_file, launch_thread>>

NextEntity ==
    \/ \E a \in EntityPackageArgs :
          /\ Len(packages) < MaxEntityPackages
          /\ LET r == add_package(packages, external_packages, a, a \o <<SEP>>, TRUE)
             IN  EntityCall("add_package", a, r.pk, natives, r.ret)
    \/ \E a \in EntityPackageArgs :
          LET r == remove_package(packages, a)
          IN  EntityCall("remove_package", a, r.pk, natives, r.ret)
    \/ \E a \in EntityPackageArgs :
          LET r == toggle_package(packages, a)
          IN  EntityCall("toggle_package", a, r.pk, natives, r.ret)
    \/ \E a \in {<<"a.dll">>, <<"SeamlessCoop", SEP, "nrsc.dll">>, <<"e.dll", EXT>>} :
          /\ Len(natives) < MaxEntityNatives
          /\ LET r == add_native(natives, external_natives, a, FALSE, TRUE, FALSE)
             IN  EntityCall("add_native", a, packages, r.nt, r.ret)
    \/ \E a \in EntityNativeArgs :
          LET r == remove_native(natives, a)
          IN  EntityCall("remove_native", a, packages, r.nt, r.ret)
    \/ \E a \in EntityNativeArgs :
          LET r == toggle_native(natives, a)
          IN  EntityCall("toggle_native", a, packages, r.nt, r.ret)
    \/ LET r == set_force_load_first_native(natives, <<"a.dll">>)
       IN  EntityCall("set_force_load_first_native", <<"a.dll">>, packages, r.nt, r.ret)

SpecEntity == InitEntity /\ [][NextEntity]_vars

-----------------------------------------------------------------------------
(* Profile state machine: a configuration is built from a loaded profile    *)
(* and by the manager's operations, saved to the profile file and loaded    *)
(* back from it.  External entities live at Windows paths.                  *)


InitProfile ==
    /\ packages = <<>>
    /\ natives = <<>>
    /\ external_packages = [x \in {<<"D">>} |-> <<"C:", BS, "ext", BS, "D">>]
    /\ external_natives = [x \in {<<"e.dll">>} |-> <<"C:", BS, "ext", BS, "e.dll">>]
    /\ mod_comments = EmptyDict
    /\ native_comments = EmptyDict
    /\ last = NoCall
    /\ prev = NoCall
    /\ track = NoTrack
    /\ config_file = NoFile
    /\ launch_thread = NoThread

ProfilePackageArgs == {<<"A">>, <<"D", EXT>>}

AddPackageUpTo(id, n) ==
    /\ Len(packages) < n
    /\ PackageCall("add_package", id,
                   add_package(packages, external_packages, id, id \o <<SEP>>, TRUE))

NextProfile ==
    \* a profile with an initializer, a finalizer and constraints on externals
    \/ LoadConfig(
          [kind |-> "ok",
           packages |-> << PkgData(<<"A">>, Some(<<Dep(<<"D">>, TRUE)>>), None) >>,
           natives |-> << [NatData(<<"a.dll">>, None, Some(<<Dep(<<"e.dll">>, FALSE)>>))
                              EXCEPT !.optional = TRUE,
                                     !.initializer = Some(<<"init">>),
                                     !.finalizer = Some(<<"fini">>)] >>])
    \/ \E id \in ProfilePackageArgs : AddPackageUpTo(id, MaxProfilePackages)
    \/ \E id \in ProfilePackageArgs : TogglePackage(id)
    \/ \E id \in ProfilePackageArgs : SetForceLoadLast(id)
    \/ \E p \in {<<"SeamlessCoop", SEP, "nrsc.dll">>, <<"e.dll", EXT>>} :
          AddNativeUpTo(p, MaxProfileNatives)
    \/ \E p \in {NRSC, <<"e.dll">>} : ToggleNative(p)
    \/ \E p \in {NRSC, <<"e.dll">>} : SetForceLoadFirstNative(p)
    \* save_config(config_path) followed by load_config(config_path) of the file
    \* just written, a file of its own next to the profile self.config_file
    \/ LET text == _write_custom_toml(save_config(packages, natives))
           r == load_config(packages, natives, external_packages, external_natives,
                            toml_load(text))
       IN  /\ packages' = r.pk
           /\ natives' = r.nt
           /\ last' = Call("load_config", <<"save_config">>, NoArg, r.ret)
           /\ prev' = NoCall
           /\ track' = NoTrack
           /\ UNCHANGED <<external_packages, external_natives, mod_comments,
                          native_comments, config_file, launch_thread>>

SpecProfile == InitProfile /\ [][NextProfile]_vars

-----------------------------------------------------------------------------
(* Mods page handlers with the profile file: every handler is one step,     *)
(* from the manager calls it makes to the save_config() that ends it.  The  *)
(* result kept in `last` is False when a save_config() of the handler       *)
(* returned False.                                                          *)

\* the names on the check boxes, and the clean names the context menus pass
ModsPackageNames == {<<"A">>, <<"D", EXT>>}
ModsPackageIds == {<<"A">>, <<"D">>}
ModsNativeNames == {<<"a.dll">>, <<"e.dll", EXT>>}
ModsNativeIds == {<<"a.dll">>, <<"e.dll">>}

\* the handlers of the page, every save succeeding
NextMods ==
    \/ \E p \in ModsPackageNames, e \in BOOLEAN : ModsPage_toggle_package(p, e, NoFault)
    \/ \E p \in ModsNativeNames :
          Len(natives) < MaxModsNatives /\ ModsPage_toggle_native(p, TRUE, NoFault)
    \/ \E p \in ModsNativeNames : ModsPage_toggle_native(p, FALSE, NoFault)
    \/ \E p \in ModsPackageIds : ModsPage_set_force_load_last(p, NoFault)
    \/ \E p \in ModsPackageIds : ModsPage_clear_force_load_last(p, NoFault)
    \/ \E p \in ModsNativeIds : ModsPage_set_force_load_first_native(p, NoFault)
    \/ \E p \in ModsNativeIds : ModsPage_clear_force_load_first_native(p, NoFault)
    \/ \E p \in ModsNativeIds, e \in BOOLEAN : ModsPage_toggle_load_early(p, e, NoFault)
    \/ ModsPage_clear_all_mods(NoFault)
    \/ \E p \in ModsPackageIds, s \in BOOLEAN : ModsPage_remove_external_mod(p, s)
    \/ \E p \in ModsNativeIds, s \in BOOLEAN : ModsPage_remove_external_dll(p, s)
    \/ ModsPage_save_config(NoFault)

SpecMods == InitEntity /\ [][NextMods]_vars

\* enabling and disabling through the page and the save button, with every
\* outcome of the file system
NextSave ==
    \/ \E p \in ModsPackageNames, e \in BOOLEAN, f \in Faults :
          ModsPage_toggle_package(p, e, f)
    \/ \E p \in ModsNativeNames, f \in Faults :
          Len(natives) < MaxModsNatives /\ ModsPage_toggle_native(p, TRUE, f)
    \/ \E p \in ModsNativeNames, f \in Faults : ModsPage_toggle_native(p, FALSE, f)
    \/ \E f \in Faults : ModsPage_save_config(f)

SpecSave == InitEntity /\ [][NextSave]_vars

-----------------------------------------------------------------------------
(* Failure state machine: the manager's operations called with names that   *)
(* match an entity and with names that match none, on collections with      *)
(* enabled and disabled entities.                                           *)

FailurePackageArgs == {<<"A">>, <<"B", EXT>>}
FailureNativeArgs == {<<"a.dll">>, NRSC, <<"x.dll">>}

NextFailure ==
    \/ \E id \in ModsPackageNames : AddPackageUpTo(id, MaxFailurePackages)
    \/ \E id \in FailurePackageArgs : TogglePackage(id)
    \/ \E id \in FailurePackageArgs : SetForceLoadLast(id)
    \/ \E id \in FailurePackageArgs : ClearForceLoadLast(id)
    \/ \E p \in {<<"a.dll">>, <<"SeamlessCoop", SEP, "nrsc.dll">>} :
          AddNativeUpTo(p, MaxFailureNatives)
    \/ \E p \in FailureNativeArgs : ToggleNative(p)
    \/ \E p \in FailureNativeArgs : SetForceLoadFirstNative(p)
    \/ \E p \in FailureNativeArgs : ClearForceLoadFirstNative(p)
    \/ \E p \in FailureNativeArgs, e \in BOOLEAN :
          NativeCall("set_native_load_early", p, IF e THEN <<"True">> ELSE <<"False">>,
                     set_native_load_early(natives, p, e))
    \/ \E p \in FailureNativeArgs, q \in FailureNativeArgs : SetSpecificDllOrder(p, q)

SpecFailure == InitEntity /\ [][NextFailure]_vars

-----------------------------------------------------------------------------
(* Launch state machine: ModsPage.launch_game starts ModGameLaunchThread,   *)
(* whose run() goes through its calls one step at a time while the handlers *)
(* of the page keep running on the UI thread.  The calls into modules       *)
(* outside this repository part (config_manager, get_me3_executable_path,   *)
(* cleanup_game_processes, safe_launch_game) answer with any of their       *)
(* outcomes.  The thread record keeps the position in run(), the signals    *)
(* emitted so far, what the steps returned, the text its save_config() is   *)
(* writing (pending), the state of the cleanup thread it started (cleanup)  *)
(* and the number of threads started before it whose reference launch_game  *)
(* replaced while they were running (orphans).                              *)


Emit(th, signal) == [th EXCEPT !.signals = Append(@, signal)]

\* launch_completed.emit(success, ...) followed by the return of run()
Completed(th, success) ==
    [Emit(th, IF success THEN "launch_completed_true" ELSE "launch_completed_false")
        EXCEPT !.pc = "done"]

\* one step of run(): th is the thread after it, file the profile file after it
RunStep(th, file) ==
    /\ launch_thread' = th
    /\ config_file' = file
    /\ last' = Call("ModGameLaunchThread.run", <<launch_thread.pc>>, NoArg, TRUE)
    /\ prev' = NoCall
    /\ track' = NoTrack
    /\ UNCHANGED <<packages, natives, external_packages, external_natives, mod_comments,
                   native_comments>>

\* ModsPage.launch_game(): the checks, save_config(), then
\* self.launch_thread = ModGameLaunchThread(...) and launch_thread.start(),
\* whatever the thread that self.launch_thread referred to is doing
ModsPage_launch_game(game_path, me3_exe, fault) ==
    /\ launch_thread.pc \notin {"idle", "done"} => launch_thread.orphans < MaxOrphans
    /\ \E saved \in {IF game_path /\ me3_exe
                     THEN save_config_file(packages, natives, config_file, fault)
                     ELSE [file |-> config_file, ret |-> FALSE]} :
          /\ config_file' = saved.file
          /\ launch_thread' =
                IF saved.ret
                THEN [NoThread EXCEPT
                        !.pc = "game_path",
                        !.orphans = IF launch_thread.pc \in {"idle", "done"}
                                    THEN launch_thread.orphans
                                    ELSE launch_thread.orphans + 1]
                ELSE launch_thread
          /\ last' = Call("ModsPage.launch_game", NoArg, NoArg, saved.ret)
    /\ prev' = NoCall
    /\ track' = NoTrack
    /\ UNCHANGED <<packages, natives, external_packages, external_natives, mod_comments,
                   native_comments>>

\* game_path = get_game_path(); validate_game_path()
Run_game_path(outcome) ==
    /\ launch_thread.pc = "game_path"
    /\ RunStep(IF outcome = "ok" THEN [launch_thread EXCEPT !.pc = "me3_exe"]
               ELSE Completed(launch_thread, FALSE), config_file)

\* me3_exe = get_me3_executable_path()
Run_me3_exe(outcome) ==
    /\ launch_thread.pc = "me3_exe"
    /\ RunStep(IF outcome = "ok" THEN [launch_thread EXCEPT !.pc = "save_config"]
               ELSE Completed(launch_thread, FALSE), config_file)

\* status_update saving_config; mod_manager.save_config() up to its
\* open(config_file, 'w'): config_data is built from the collections and the
\* file is truncated; what the writes will make of it is kept in pending
Run_save_config(fault) ==
    /\ launch_thread.pc = "save_config"
    /\ \E saved \in {save_config_file(packages, natives, config_file, fault)} :
          RunStep(IF fault.at = "open"
                  THEN Completed(Emit(launch_thread, "saving_config"), FALSE)
                  ELSE [Emit(launch_thread, "saving_config")
                           EXCEPT !.pc = "save_write", !.pending = saved],
                  IF fault.at = "open" THEN config_file
                  ELSE [kind |-> "ok", packages |-> <<>>, natives |-> <<>>])

\* mod_manager.save_config() from _write_custom_toml to the close of the file,
\* where the buffered text goes to the file at offset 0.  When another
\* save_config() wrote the file since the open, the text lands over what that
\* one wrote: the file is this text when it is no shorter than the other, and
\* this text followed by the rest of the other (kind "mixed") when it is
\* shorter; the token model keeps no byte lengths, so both are outcomes.
Run_save_write(mixed) ==
    /\ launch_thread.pc = "save_write"
    /\ LET truncated == [kind |-> "ok", packages |-> <<>>, natives |-> <<>>]
           pending == launch_thread.pending
           overwritten == config_file \notin {truncated, pending.file}
       IN  /\ mixed => overwritten
           /\ RunStep(IF pending.ret
                      THEN [launch_thread EXCEPT !.pc = "create_script", !.saved = TRUE]
                      ELSE Completed(launch_thread, FALSE),
                      IF mixed
                      THEN [kind |-> "mixed", packages |-> pending.file.packages,
                            natives |-> config_file.natives]
                      ELSE pending.file)

\* variant that goes on to the next step whatever the script creation returned
Run_create_script_unchecked(outcome) ==
    /\ launch_thread.pc = "create_script"
    /\ RunStep([Emit(launch_thread, "creating_script")
                  EXCEPT !.pc = "cleanup", !.script = (outcome = "ok")],
               config_file)

\* status_update creating_script; _create_launch_bat_script(...), which
\* returns no path when it fails
Run_create_script(outcome) ==
    /\ launch_thread.pc = "create_script"
    /\ RunStep(IF outcome = "ok"
               THEN [Emit(launch_thread, "creating_script")
                        EXCEPT !.pc = "cleanup", !.script = TRUE]
               ELSE Completed(Emit(launch_thread, "creating_script"), FALSE),
               config_file)

\* status_update cleaning_processes; cleanup_thread.start();
\* cleanup_thread.join(timeout=3): the join returns when cleanup_processes()
\* has returned (its exceptions are caught and printed) or when the three
\* seconds are over and it is still running
Run_cleanup(finished) ==
    /\ launch_thread.pc = "cleanup"
    /\ RunStep([Emit(launch_thread, "cleaning_processes")
                  EXCEPT !.pc = "launch",
                         !.cleanup = IF finished THEN "finished" ELSE "running"],
               config_file)

\* cleanup_processes() returns in the daemon thread that the join gave up on
Cleanup_finish ==
    /\ launch_thread.cleanup = "running"
    /\ launch_thread' = [launch_thread EXCEPT !.cleanup = "finished"]
    /\ last' = Call("cleanup_processes", <<launch_thread.pc>>, NoArg, TRUE)
    /\ prev' = NoCall
    /\ track' = NoTrack
    /\ UNCHANGED <<packages, natives, external_packages, external_natives, mod_comments,
                   native_comments, config_file>>

\* status_update launching_game; safe_launch_game(bat_path); launch_completed
Run_launch(outcome) ==
    /\ launch_thread.pc = "launch"
    /\ RunStep(IF outcome = "raise"
               THEN Completed([Emit(launch_thread, "launching_game")
                                  EXCEPT !.launched = TRUE], FALSE)
               ELSE Completed([Emit(launch_thread, "launching_game")
                                  EXCEPT !.launched = TRUE, !.returned = TRUE], TRUE),
               config_file)

\* a thread whose reference was replaced: it is destroyed while running, or
\* it runs on to the end of run(), where its save_config() writes the file
Orphan_run(saves, fault) ==
    /\ launch_thread.orphans > 0
    /\ launch_thread' = [launch_thread EXCEPT !.orphans = @ - 1]
    /\ config_file' = IF saves
                      THEN save_config_file(packages, natives, config_file, fault).file
                      ELSE config_file
    /\ last' = Call("ModGameLaunchThread.run", <<"orphan">>, NoArg, TRUE)
    /\ prev' = NoCall
    /\ track' = NoTrack
    /\ UNCHANGED <<packages, natives, external_packages, external_natives, mod_comments,
                   native_comments>>

\* the steps of ModGameLaunchThread.run
Run ==
    \/ \E o \in {"ok", "fail", "raise"} : Run_game_path(o)
    \/ \E o \in {"ok", "fail", "raise"} : Run_me3_exe(o)
    \/ \E f \in Faults : Run_save_config(f)
    \/ \E m \in BOOLEAN : Run_save_write(m)
    \/ \E o \in {"ok", "fail", "raise"} : Run_create_script(o)
    \/ \E f \in BOOLEAN : Run_cleanup(f)
    \/ \E o \in {"ok", "raise"} : Run_launch(o)

\* the page with one launch at a time: the launch button is pressed again only
\* after the launch before it has completed
NextLaunch ==
    \/ /\ launch_thread.pc \in {"idle", "done"}
       /\ \E g \in BOOLEAN, e \in BOOLEAN, f \in Faults : ModsPage_launch_game(g, e, f)
    \/ Run
    \/ Cleanup_finish
    \/ \E p \in ModsPackageNames, e \in BOOLEAN : ModsPage_toggle_package(p, e, NoFault)
    \/ \E p \in ModsPackageIds : ModsPage_set_force_load_last(p, NoFault)
    \/ \E s \in BOOLEAN : ModsPage_remove_external_mod(<<"D">>, s)

SpecLaunch == InitEntity /\ [][NextLaunch]_vars

\* the page with the launch button pressed at any time
NextRelaunch ==
    \/ \E g \in BOOLEAN, e \in BOOLEAN : ModsPage_launch_game(g, e, NoFault)
    \/ Run
    \/ Cleanup_finish
    \/ \E s \in BOOLEAN, f \in Faults : Orphan_run(s, f)
    \/ \E p \in ModsPackageNames, e \in BOOLEAN : ModsPage_toggle_package(p, e, NoFault)

SpecRelaunch == InitEntity /\ [][NextRelaunch]_vars

\* run() goes on once started: each of its calls returns or raises
SpecLaunchLive == SpecLaunch /\ WF_vars(Run)

-----------------------------------------------------------------------------
(* External registry: the maps of external mod folders and DLLs with their  *)
(* comment maps, the operations that add to them, remove from them and      *)
(* clean them up.  Paths are resolved absolute paths; the paths that exist  *)
(* when an operation runs (fs) and the outcome of save_external_mods()      *)
(* (saved) are inputs of the operation.                                     *)

\* self.mods_dir: a DLL at the top level, a mod folder of type "dll" and a mod
\* folder of type "mixed" (_detect_mod_type), with the DLLs for which
\* _scan_dll_files looks in each folder
ModsDir ==
    {[name |-> "a.dll", type |-> "file", dlls |-> {}],
     [name |-> "SeamlessCoop", type |-> "dll", dlls |-> {"nrsc.dll"}],
     [name |-> "Mixed", type |-> "mixed", dlls |-> {"m.dll"}]}

\* the directories and the files outside mods_dir, and a folder and a DLL
\* inside it
RegistryDirs ==
    {<<"ext", SEP, "D">>, <<"other", SEP, "D">>, <<"ext", SEP, "E">>,
     <<"Mods", SEP, "Mixed">>}
RegistryFiles ==
    {<<"ext", SEP, "e.dll">>, <<"other", SEP, "e.dll">>, <<"ext", SEP, "nrsc.dll">>,
     <<"ext", SEP, "a.dll">>, <<"ext", SEP, "m.dll">>, <<"ext", SEP, "notes.txt">>,
     <<"Mods", SEP, "SeamlessCoop", SEP, "nrsc.dll">>}

\* the paths that exist: all of them, or all but some that were deleted
FileSystems ==
    [all |-> RegistryDirs \cup RegistryFiles,
     no_D |-> (RegistryDirs \cup RegistryFiles) \ {<<"ext", SEP, "D">>},
     no_dll |-> (RegistryDirs \cup RegistryFiles) \ {<<"ext", SEP, "e.dll">>},
     neither |-> (RegistryDirs \cup RegistryFiles)
                    \ {<<"ext", SEP, "D">>, <<"ext", SEP, "e.dll">>}]

\* get_all_dll_names(): for a folder of type "dll" the relative paths that
\* _scan_dll_files returns (f"{mod_path.name}/{dll_file.name}"), for a file
\* at the top level its name, then the keys of external_natives
get_all_dll_names(ext_nt) ==
    UNION {IF item.type = "dll" THEN {<<item.name, SEP, d>> : d \in item.dlls}
           ELSE IF item.type = "file" THEN {<<item.name>>}
           ELSE {} : item \in ModsDir}
    \cup DOMAIN ext_nt

\* add_external_package(mod_path): the checks, then
\* external_packages[mod_name] = mod_path_str and save_external_mods()
add_external_package(ext_pk, mod_path, fs, saved) ==
    IF mod_path \notin fs \cap RegistryDirs
    THEN [ext |-> ext_pk, ret |-> FALSE]
    ELSE IF mod_path[1] = "Mods"
    THEN [ext |-> ext_pk, ret |-> FALSE]
    ELSE IF \E existing_name \in DOMAIN ext_pk : ext_pk[existing_name] = mod_path
    THEN [ext |-> ext_pk, ret |-> FALSE]
    ELSE IF PathName(mod_path) \in DOMAIN ext_pk
    THEN [ext |-> ext_pk, ret |-> FALSE]
    ELSE [ext |-> [x \in DOMAIN ext_pk \cup {PathName(mod_path)} |->
                      IF x = PathName(mod_path) THEN mod_path ELSE ext_pk[x]],
          ret |-> saved]

\* add_external_native(dll_path): the checks, among them dll_name in
\* get_all_dll_names(), then external_natives[dll_name] = dll_path_str and
\* save_external_mods()
add_external_native(ext_nt, dll_path, fs, saved) ==
    LET dll_name == PathName(dll_path)
        \* dll_path.suffix.lower()
        suffix == IF dll_name = <<"notes.txt">> THEN ".txt" ELSE ".dll"
    IN  IF dll_path \notin fs \cap RegistryFiles
        THEN [ext |-> ext_nt, ret |-> FALSE]
        ELSE IF suffix # ".dll"
        THEN [ext |-> ext_nt, ret |-> FALSE]
        ELSE IF dll_path[1] = "Mods"
        THEN [ext |-> ext_nt, ret |-> FALSE]
        ELSE IF \E existing_name \in DOMAIN ext_nt : ext_nt[existing_name] = dll_path
        THEN [ext |-> ext_nt, ret |-> FALSE]
        ELSE IF dll_name \in get_all_dll_names(ext_nt)
        THEN [ext |-> ext_nt, ret |-> FALSE]
        ELSE [ext |-> [x \in DOMAIN ext_nt \cup {dll_name} |->
                          IF x = dll_name THEN dll_path ELSE ext_nt[x]],
              ret |-> saved]

\* get_missing_external_mods(): the names whose path does not exist
\* (check_external_mods_existence), as sets: the order of the lists is the
\* insertion order of the maps, which the model does not keep
get_missing_external_mods(ext_pk, ext_nt, fs) ==
    [packages |-> {name \in DOMAIN ext_pk : ext_pk[name] \notin fs},
     natives |-> {name \in DOMAIN ext_nt : ext_nt[name] \notin fs}]

\* variant that cleans the packages only
cleanup_missing_external_mods_packages_only(ext_pk, ext_nt, mc, nc, fs, saved) ==
    LET missing == get_missing_external_mods(ext_pk, ext_nt, fs)
    IN  [packages |-> [x \in DOMAIN ext_pk \ missing.packages |-> ext_pk[x]],
         natives |-> ext_nt,
         mod_comments |-> [x \in DOMAIN mc \ missing.packages |-> mc[x]],
         native_comments |-> nc,
         ret |-> [packages |-> IF saved THEN missing.packages ELSE {},
                  natives |-> {}]]

\* cleanup_missing_external_mods(): remove_external_package on every missing
\* package and remove_external_native on every missing DLL, each deleting the
\* entry and its comment and returning what save_external_mods() returned;
\* the names for which that was True are returned
cleanup_missing_external_mods(ext_pk, ext_nt, mc, nc, fs, saved) ==
    LET missing == get_missing_external_mods(ext_pk, ext_nt, fs)
    IN  [packages |-> [x \in DOMAIN ext_pk \ missing.packages |-> ext_pk[x]],
         natives |-> [x \in DOMAIN ext_nt \ missing.natives |-> ext_nt[x]],
         mod_comments |-> [x \in DOMAIN mc \ missing.packages |-> mc[x]],
         native_comments |-> [x \in DOMAIN nc \ missing.natives |-> nc[x]],
         ret |-> [packages |-> IF saved THEN missing.packages ELSE {},
                  natives |-> IF saved THEN missing.natives ELSE {}]]

\* set_mod_comment(mod_id, comment) / set_native_comment(dll_path, comment):
\* the stripped comment is stored, an empty one deletes the entry
set_mod_comment(comments, mod_id, comment) ==
    LET kept == {i \in Idx(comment) : comment[i] # " "}
        strip == IF kept = {} THEN <<>>
                 ELSE SubSeq(comment, CHOOSE i \in kept : \A j \in kept : i <= j,
                             CHOOSE i \in kept : \A j \in kept : i >= j)
    IN  IF strip # <<>>
        THEN [x \in DOMAIN comments \cup {mod_id} |->
                 IF x = mod_id THEN strip ELSE comments[x]]
        ELSE [x \in DOMAIN comments \ {mod_id} |-> comments[x]]

\* a call on the registry: r holds the four maps after it and its result
RegistryCall(op, a, b, r) ==
    /\ external_packages' = r.packages
    /\ external_natives' = r.natives
    /\ mod_comments' = r.mod_comments
    /\ native_comments' = r.native_comments
    /\ last' = Call(op, a, b, r.ret)
    /\ prev' = NoCall
    /\ track' = NoTrack
    /\ UNCHANGED <<packages, natives, config_file, launch_thread>>

\* the registry operations; `last` keeps the name of the file system and
\* whether the save succeeded, and for the cleanup the names it returned
NextRegistry ==
    \/ \E p \in RegistryDirs, f \in DOMAIN FileSystems, saved \in BOOLEAN :
          \E r \in {add_external_package(external_packages, p, FileSystems[f], saved)} :
             RegistryCall("add_external_package", p,
                          <<f, IF saved THEN "saved" ELSE "failed">>,
                          [packages |-> r.ext, natives |-> external_natives,
                           mod_comments |-> mod_comments,
                           native_comments |-> native_comments, ret |-> r.ret])
    \/ \E p \in RegistryFiles, f \in DOMAIN FileSystems, saved \in BOOLEAN :
          \E r \in {add_external_native(external_natives, p, FileSystems[f], saved)} :
             RegistryCall("add_external_native", p,
                          <<f, IF saved THEN "saved" ELSE "failed">>,
                          [packages |-> external_packages, natives |-> r.ext,
                           mod_comments |-> mod_comments,
                           native_comments |-> native_comments, ret |-> r.ret])
    \* remove_external_package: the entry and its comment are deleted
    \/ \E name \in {<<"D">>, <<"E">>}, saved \in BOOLEAN :
          \E r \in {remove_external_package(external_packages, name, saved)} :
             RegistryCall("remove_external_package", name,
                          <<IF saved THEN "saved" ELSE "failed">>,
                          [packages |-> r.ext, natives |-> external_natives,
                           mod_comments |->
                               IF name \in DOMAIN external_packages
                               THEN [x \in DOMAIN mod_comments \ {name} |-> mod_comments[x]]
                               ELSE mod_comments,
                           native_comments |-> native_comments, ret |-> r.ret])
    \/ \E name \in {<<"e.dll">>, <<"nrsc.dll">>}, saved \in BOOLEAN :
          \E r \in {remove_external_native(external_natives, name, saved)} :
             RegistryCall("remove_external_native", name,
                          <<IF saved THEN "saved" ELSE "failed">>,
                          [packages |-> external_packages, natives |-> r.ext,
                           mod_comments |-> mod_comments,
                           native_comments |->
                               IF name \in DOMAIN external_natives
                               THEN [x \in DOMAIN native_comments \ {name} |->
                                        native_comments[x]]
                               ELSE native_comments,
                           ret |-> r.ret])
    \/ \E id \in {<<"D">>, <<"A">>}, comment \in {<<>>, <<" ", "note", " ">>} :
          RegistryCall("set_mod_comment", id, comment,
                       [packages |-> external_packages, natives |-> external_natives,
                        mod_comments |-> set_mod_comment(mod_comments, id, comment),
                        native_comments |-> native_comments, ret |-> TRUE])
    \/ \E id \in {<<"e.dll">>}, comment \in {<<>>, <<" ", "note", " ">>} :
          RegistryCall("set_native_comment", id, comment,
                       [packages |-> external_packages, natives |-> external_natives,
                        mod_comments |-> mod_comments,
                        native_comments |-> set_mod_comment(native_comments, id, comment),
                        ret |-> TRUE])
    \/ \E f \in DOMAIN FileSystems, saved \in BOOLEAN :
          \E r \in {cleanup_missing_external_mods(external_packages, external_natives,
                                                  mod_comments, native_comments,
                                                  FileSystems[f], saved)} :
             RegistryCall("cleanup_missing_external_mods",
                          <<f, IF saved THEN "saved" ELSE "failed">>,
                          SelectSeq(<<"D", "E", "e.dll", "nrsc.dll", "m.dll">>,
                                    LAMBDA name : <<name>> \in r.ret.packages
                                                              \cup r.ret.natives),
                          [r EXCEPT !.ret = TRUE])

SpecRegistry == Init /\ [][NextRegistry]_vars

-----------------------------------------------------------------------------
(* Force-last detection: is_force_load_last applied to package collections  *)
(* of every shape, as load_config and toggle_package can leave them.        *)

\* ids of the packages next to <<"A">>, and an id that names no package
OtherIds ==
    SubSeq(<< <<"B">>, <<"C">>, <<"D">>, <<"E">>, <<"F">>, <<"G">>, <<"H">> >>,
           1, MaxForceLastOthers)
NamedIds == OtherIds \o << <<"Z">> >>

\* the collection with package A, whose load_after names the ids of `named`
\* (no list at all when listed is false), and the others as `state` says
InitForceLast ==
    /\ \E state \in [{OtherIds[i] : i \in Idx(OtherIds)}
                        -> {"absent", "disabled", "enabled"}],
          listed \in BOOLEAN,
          named \in SUBSET {NamedIds[i] : i \in Idx(NamedIds)},
          a_enabled \in BOOLEAN :
          /\ (~listed => named = {})
          /\ packages =
                << [ModPackage(<<"A">>, <<"A", SEP>>, a_enabled, FALSE)
                       EXCEPT !.load_after =
                           IF listed
                           THEN Some(MapSeq(SelectSeq(NamedIds, LAMBDA id : id \in named),
                                            LAMBDA id : Dep(id, TRUE)))
                           ELSE None] >>
                \o MapSeq(SelectSeq(OtherIds, LAMBDA id : state[id] # "absent"),
                          LAMBDA id : ModPackage(id, id \o <<SEP>>,
                                                 state[id] = "enabled", FALSE))
    /\ natives = <<>>
    /\ external_packages = EmptyDict
    /\ external_natives = EmptyDict
    /\ mod_comments = EmptyDict
    /\ native_comments = EmptyDict
    /\ last = NoCall
    /\ prev = NoCall
    /\ track = NoTrack
    /\ config_file = NoFile
    /\ launch_thread = NoThread

NextForceLast ==
    \E mod_id \in {<<"A">>, <<"A", EXT>>, <<"B">>, <<"Q">>} :
        /\ last' = Call("is_force_load_last", mod_id, NoArg,
                        is_force_load_last(packages, mod_id))
        /\ UNCHANGED <<packages, natives, external_packages, external_natives,
                       mod_comments, native_comments, prev, track, config_file,
                       launch_thread>>

SpecForceLast == InitForceLast /\ [][NextForceLast]_vars

-----------------------------------------------------------------------------
(* Properties of the native collection *)

\* some native of collection nt named `a` lists `b` in its load_before
HasEdgeIn(nt, a, b) ==
    \E i \in Idx(nt) : PathName(nt[i].path) = a /\ b \in DepIds(nt[i].load_before)

HasEdge(a, b) == HasEdgeIn(natives, a, b)

\* a native named `name` is enabled
IsEnabled(name) ==
    \E i \in Idx(natives) : PathName(natives[i].path) = name /\ natives[i].enabled

BothEnabled == IsEnabled(NIGHTER) /\ IsEnabled(NRSC)

\* the native a call's argument designates: the first match in collection order
Target(arg) == FirstIdx(natives, LAMBDA n : MatchNative(n, StripExternal(arg)))

\* number of entries of an Optional constraint list that name `id`
Count(o, id) == Cardinality({k \in Idx(o.items) : o.items[k].id = id})

C7_FixedOrderRestored ==
    (/\ BothEnabled
     /\ \/ last.op \in {"update_load_dependencies", "add_to_load_dependencies"}
        \/ (last.op = "set_force_load_first_native" /\ last.ret))
    => (HasEdge(NIGHTER, NRSC) /\ ~HasEdge(NRSC, NIGHTER))

\* set_force_load_first_native has succeeded on nrsc.dll itself while
\* nighter.dll and a third native are enabled
C7_Witness ==
    /\ last.op = "set_force_load_first_native" /\ last.ret
    /\ PathName(StripExternal(last.a)) = NRSC
    /\ BothEnabled
    /\ Cardinality({i \in Idx(natives) : natives[i].enabled}) = 3
    /\ HasEdge(NIGHTER, NRSC)

\* C8 as claimed: if nighter.dll and nrsc.dll are both enabled and the
\* load_before of nighter.dll contains nrsc.dll, then after any
\* set_force_load_first_native or clear_force_load_first_native call on any
\* native, nighter.dll itself included, it still contains nrsc.dll.
C8_Claimed ==
    [][(/\ BothEnabled
        /\ HasEdge(NIGHTER, NRSC)
        /\ last'.op \in {"set_force_load_first_native", "clear_force_load_first_native"})
       => HasEdgeIn(natives', NIGHTER, NRSC)]_vars

\* the file names reachable from the targets `from` by load_before edges of
\* enabled natives, after at most k further steps
RECURSIVE ReachFrom(_, _)
ReachFrom(from, k) ==
    IF k = 0 THEN from
    ELSE ReachFrom(from \cup UNION {DepIds(natives[i].load_before) :
                                       i \in {j \in Idx(natives) :
                                                 /\ natives[j].enabled
                                                 /\ PathName(natives[j].path) \in from}},
                   k - 1)

\* the file names reachable from native i, directly or through enabled natives
Reachable(i) == ReachFrom(DepIds(natives[i].load_before), Len(natives))

\* C9 as claimed: when set_force_load_first_native(X) succeeds, the file name
\* of every other enabled native is reachable from X along load_before edges.
C9_Claimed ==
    (last.op = "set_force_load_first_native" /\ last.ret) =>
        LET t == Target(last.a)
        IN  \A j \in Idx(natives) :
                (j # t /\ natives[j].enabled)
                => PathName(natives[j].path) \in Reachable(t)

\* C9 as amended: when set_force_load_first_native(X) succeeds, the file name
\* of every other enabled native is reachable from X along load_before edges,
\* except a native that a fixed precedence rule places before X.
C9_ForceFirstReachesOthers ==
    (last.op = "set_force_load_first_native" /\ last.ret) =>
        LET t == Target(last.a)
        IN  \A j \in Idx(natives) :
                (/\ j # t
                 /\ natives[j].enabled
                 /\ ~_has_specific_order_dependency(PathName(natives[j].path),
                                                    PathName(natives[t].path)))
                => PathName(natives[j].path) \in Reachable(t)

\* set_force_load_first_native has succeeded on a third native with nighter.dll
\* and nrsc.dll enabled, and nrsc.dll is reached through nighter.dll only
C9_Witness ==
    /\ last.op = "set_force_load_first_native" /\ last.ret
    /\ BothEnabled
    /\ PathName(natives[Target(last.a)].path) \notin {NIGHTER, NRSC}
    /\ NRSC \notin DepIds(natives[Target(last.a)].load_before)
    /\ NRSC \in Reachable(Target(last.a))

\* C10: after set_force_load_first_native(X) has returned, X.load_before holds
\* no target T that another target U kept in X.load_before lists in its own
\* load_before; with exactly X, nighter.dll and nrsc.dll enabled the result is
\* X.load_before = [nighter.dll] and nighter.dll.load_before = [nrsc.dll].
C10_NoRedundantEdge ==
    (last.op = "set_force_load_first_native" /\ last.ret) =>
        LET t == Target(last.a)
            kept == DepIds(natives[t].load_before)
        IN  /\ \A T \in kept : ~\E U \in kept : U # T /\ HasEdge(U, T)
            /\ (/\ Len(natives) = 3
                /\ \A i \in Idx(natives) : natives[i].enabled
                /\ BothEnabled
                /\ PathName(natives[t].path) \notin {NIGHTER, NRSC})
               => /\ natives[t].load_before = Some(<<Dep(NIGHTER, FALSE)>>)
                  /\ \A i \in Idx(natives) :
                        PathName(natives[i].path) = NIGHTER
                        => natives[i].load_before = Some(<<Dep(NRSC, FALSE)>>)

\* set_force_load_first_native has succeeded on X with exactly X, nighter.dll
\* and nrsc.dll enabled
C10_Witness ==
    /\ last.op = "set_force_load_first_native" /\ last.ret
    /\ Len(natives) = 3
    /\ \A i \in Idx(natives) : natives[i].enabled
    /\ BothEnabled
    /\ PathName(natives[Target(last.a)].path) \notin {NIGHTER, NRSC}
    /\ natives[Target(last.a)].load_before = Some(<<Dep(NIGHTER, FALSE)>>)

\* C5: for two enabled natives A and B, set_specific_dll_order(A, B) followed
\* by set_specific_dll_order(B, A) leaves exactly one edge between them --
\* B.load_before contains A once and A.load_before does not contain B -- and
\* repeating a call never creates a duplicate entry.
C5_LastWriteWins ==
    (/\ last.op = "set_specific_dll_order" /\ last.ret
     /\ prev.op = "set_specific_dll_order" /\ prev.ret)
    => LET first == PathName(StripExternal(last.a))
           second == PathName(StripExternal(last.b))
           f == FirstIdx(natives, LAMBDA n : PathName(n.path) = first)
           s == FirstIdx(natives, LAMBDA n : PathName(n.path) = second)
           reversed == /\ PathName(StripExternal(prev.a)) = second
                       /\ PathName(StripExternal(prev.b)) = first
           repeated == /\ PathName(StripExternal(prev.a)) = first
                       /\ PathName(StripExternal(prev.b)) = second
       IN  /\ reversed => /\ Count(natives[f].load_before, second) = 1
                          /\ Count(natives[s].load_before, first) = 0
           /\ repeated => Count(natives[f].load_before, second) = 1

\* set_specific_dll_order(B, A) has succeeded right after a successful
\* set_specific_dll_order(A, B), B keeping another entry in its load_before
C5_Witness ==
    /\ last.op = "set_specific_dll_order" /\ last.ret
    /\ prev.op = "set_specific_dll_order" /\ prev.ret
    /\ PathName(StripExternal(prev.a)) = PathName(StripExternal(last.b))
    /\ PathName(StripExternal(prev.b)) = PathName(StripExternal(last.a))
    /\ \E i \in Idx(natives) :
          /\ PathName(natives[i].path) = PathName(StripExternal(last.a))
          /\ Len(natives[i].load_before.items) >= 2

-----------------------------------------------------------------------------
(* Properties of reconciliation *)

\* no constraint of either collection names an entity that is not an enabled
\* entity of the same kind
NoDanglingReference ==
    LET enabled_package_ids ==
            {packages[i].id : i \in {j \in Idx(packages) : packages[j].enabled}}
        enabled_native_ids ==
            {PathName(natives[i].path) : i \in {j \in Idx(natives) : natives[j].enabled}}
    IN  /\ \A i \in Idx(packages) :
              /\ DepIds(packages[i].load_after) \subseteq enabled_package_ids
              /\ DepIds(packages[i].load_before) \subseteq enabled_package_ids
        /\ \A i \in Idx(natives) :
              /\ DepIds(natives[i].load_after) \subseteq enabled_native_ids
              /\ DepIds(natives[i].load_before) \subseteq enabled_native_ids

\* C1 as claimed: for any prior state, after remove_package or remove_native
\* followed by update_load_dependencies(), no remaining entity of either kind
\* has a load_before or load_after entry whose id is not the id (package) or
\* file name (native) of a currently enabled entity of the same kind.
C1_Claimed ==
    (/\ last.op = "update_load_dependencies"
     /\ prev.op \in {"remove_package", "remove_native"} /\ prev.ret)
    => NoDanglingReference

\* C11 as claimed: if H holds the force-first marker, set by a successful
\* set_force_load_first_native(H) while another native was enabled, then after
\* add_native(W) followed by add_to_load_dependencies(W, is_native=True) the
\* load_before of H contains the file name of W, or W is reachable from H
\* through load_before edges.
C11_Claimed ==
    [][(/\ last.op = "add_native" /\ last.ret
        /\ prev.op = "set_force_load_first_native" /\ prev.ret
        /\ \E j \in Idx(natives) : /\ j # Target(prev.a)
                                   /\ j # Len(natives)
                                   /\ natives[j].enabled
        /\ last'.op = "add_to_load_dependencies"
        /\ last'.a = last.a)
       => (PathName(StripExternal(last.a)) \in Reachable(Target(prev.a)))']_vars

\* a load_before list made only of fixed-precedence edges
FixedOnly(n) == Truthy(n.load_before) /\ _has_only_specific_order_deps(n)

\* C12 as claimed: a successful set_force_load_first_native(X) sets the
\* load_before of every other native to absent, except a native whose
\* load_before held only fixed-precedence edges, which keeps it as it was.
C12_Claimed ==
    [][(last'.op = "set_force_load_first_native" /\ last'.ret) =>
          \A i \in Idx(natives) :
              i # Target(last'.a) =>
                  natives'[i].load_before =
                      IF FixedOnly(natives[i]) THEN natives[i].load_before ELSE None]_vars

\* C12: a successful set_force_load_first_native(X) leaves the load_before of
\* every other native that held only fixed-precedence edges as it was, and
\* clears the load_before of every other native; the fixed precedence is then
\* re-applied, so that nighter.dll ends with exactly {id: nrsc.dll, optional:
\* false} when nighter.dll and nrsc.dll are both enabled, and absent otherwise.
C12_ForceFirstKeepsFixedOnly ==
    [][(last'.op = "set_force_load_first_native" /\ last'.ret) =>
          \A i \in Idx(natives) :
              i # Target(last'.a) =>
                  natives'[i].load_before =
                      IF FixedOnly(natives[i]) THEN natives[i].load_before
                      ELSE IF PathName(natives[i].path) = NIGHTER /\ BothEnabled
                      THEN Some(<<Dep(NRSC, FALSE)>>)
                      ELSE None]_vars

\* set_force_load_first_native succeeded on another native while nighter.dll
\* holds only the fixed edge and nrsc.dll is disabled
C12_Witness ==
    /\ last.op = "set_force_load_first_native" /\ last.ret
    /\ ~IsEnabled(NRSC)
    /\ \E i \in Idx(natives) :
          /\ i # Target(last.a)
          /\ PathName(natives[i].path) = NIGHTER
          /\ natives[i].load_before = Some(<<Dep(NRSC, FALSE)>>)
    /\ \E i \in Idx(natives) : i # Target(last.a) /\ natives[i].load_before = None

\* the enabled natives for which is_force_load_first_native answers True
ForceFirstHolders ==
    {i \in Idx(natives) :
        natives[i].enabled /\ is_force_load_first_native(natives, PathName(natives[i].path))}

\* C13: in every state reached from the empty configuration by enabling and
\* disabling natives through the page (add_native then add_to_load_dependencies,
\* remove_native then update_load_dependencies), set_force_load_first_native
\* and clear_force_load_first_native, each followed by the page's save, at
\* most one enabled native satisfies is_force_load_first_native.
C13_ForceFirstUnique == Cardinality(ForceFirstHolders) <= 1

\* set_force_load_first_native made its target the one holder among four
\* enabled natives
C13_Witness ==
    /\ last.op = "ModsPage.set_force_load_first_native" /\ last.ret
    /\ ForceFirstHolders = {Target(last.a)}
    /\ Cardinality({i \in Idx(natives) : natives[i].enabled}) >= 4

\* C14 as claimed: in every state reached by add_native, remove_native,
\* set_force_load_first_native, clear_force_load_first_native,
\* set_specific_dll_order, update_load_dependencies and
\* add_to_load_dependencies, no two enabled natives name each other in their
\* load_before.
C14_Claimed ==
    \A i \in Idx(natives), j \in Idx(natives) :
        (i # j /\ natives[i].enabled /\ natives[j].enabled)
            => ~(/\ PathName(natives[j].path) \in DepIds(natives[i].load_before)
                 /\ PathName(natives[i].path) \in DepIds(natives[j].load_before))

\* C15 as claimed: in every state reached by the resolver's native operations
\* the load_before edges among enabled natives form no cycle of any length:
\* no enabled native is reachable from itself.
C15_Claimed ==
    \A i \in Idx(natives) :
        natives[i].enabled => PathName(natives[i].path) \notin Reachable(i)

\* C16: add_package returns false and leaves the collection unchanged when a
\* package whose id equals the argument with the external decoration stripped
\* already exists; no two packages share an id in any reachable state.
C16_AddPackageRejectsDuplicates ==
    /\ [](\A i \in Idx(packages), j \in Idx(packages) :
              i # j => packages[i].id # packages[j].id)
    /\ [][(/\ last'.op = "add_package"
           /\ \E i \in Idx(packages) : packages[i].id = StripExternal(last'.a))
          => (~last'.ret /\ packages' = packages)]_vars

\* add_package of a decorated name was rejected because the package of that
\* name exists, added under the plain name
C16_Witness ==
    /\ last.op = "add_package" /\ ~last.ret
    /\ last.a = <<"D", EXT>>
    /\ \E i \in Idx(packages) : packages[i].id = <<"D">> /\ ~packages[i].is_external

\* the entries of the collection that hold the native a call of add_native
\* with argument `a` stores
EntriesFor(nt, a) ==
    LET clean_path == StripExternal(a)
        stored == IF EndsWith(a, <<EXT>>) /\ clean_path \in DOMAIN external_natives
                  THEN external_natives[clean_path] ELSE clean_path
    IN  {i \in Idx(nt) : nt[i].path = stored}

\* C17 as claimed: a second call of add_native with the same identifier, plain
\* or decorated and registered in external_natives, returns false and leaves
\* exactly one entry for that native in the collection.
C17_Claimed ==
    [][(last.op = "add_native" /\ last'.op = "add_native" /\ last'.a = last.a)
          => (~last'.ret /\ Cardinality(EntriesFor(natives', last'.a)) = 1)]_vars

\* the packages / natives an identifier designates: a package by its id, a
\* native exactly, as a suffix of its stored path, or, when external, by the
\* final segment of its path (the decoration stripped from the identifier)
PackageMatches(pk, a) == {i \in Idx(pk) : pk[i].id = StripExternal(a)}
NativeMatches(nt, a) ==
    {i \in Idx(nt) : \/ nt[i].path = StripExternal(a)
                     \/ nt[i].path = a
                     \/ EndsWith(nt[i].path, StripExternal(a))
                     \/ (nt[i].is_external /\ PathName(nt[i].path) = StripExternal(a))}
\* the first index of a non-empty set of indices
First(S) == CHOOSE i \in S : \A j \in S : i <= j

\* C18: remove_package / remove_native returns true iff some entity matches
\* the identifier; on true exactly the first match in collection order is
\* removed and every other entity is unchanged with all its fields; on false
\* the collection is unchanged.  The other collection is never touched.
C18_RemoveFirstMatchOnly ==
    [][/\ last'.op = "remove_package" =>
            LET M == PackageMatches(packages, last'.a)
            IN  /\ last'.ret = (M # {})
                /\ packages' = IF M # {} THEN DelAt(packages, First(M)) ELSE packages
                /\ natives' = natives
       /\ last'.op = "remove_native" =>
            LET M == NativeMatches(natives, last'.a)
            IN  /\ last'.ret = (M # {})
                /\ natives' = IF M # {} THEN DelAt(natives, First(M)) ELSE natives
                /\ packages' = packages]_vars

\* remove_native by the file name of an external native removed one of two
\* matching entries and left the other
C18_Witness ==
    /\ last.op = "remove_native" /\ last.ret /\ last.a = <<"e.dll">>
    /\ Len(natives) = 1
    /\ natives[1].is_external /\ natives[1].path = external_natives[<<"e.dll">>]

\* C19: toggle_package / toggle_native flips the enabled flag of the first
\* matching entity and nothing else (membership, order and every other field
\* of both collections are unchanged; without a match nothing changes), and
\* toggling the same identifier twice restores the state.
C19_ToggleFlipsEnabledOnly ==
    /\ [][/\ last'.op = "toggle_package" =>
               LET M == PackageMatches(packages, last'.a)
               IN  /\ last'.ret = (M # {})
                   /\ packages' = IF M # {}
                                  THEN [packages EXCEPT ![First(M)].enabled = ~@]
                                  ELSE packages
                   /\ natives' = natives
          /\ last'.op = "toggle_native" =>
               LET M == NativeMatches(natives, last'.a)
               IN  /\ last'.ret = (M # {})
                   /\ natives' = IF M # {}
                                 THEN [natives EXCEPT ![First(M)].enabled = ~@]
                                 ELSE natives
                   /\ packages' = packages]_vars
    /\ [](/\ \A a \in EntityPackageArgs :
                toggle_package(toggle_package(packages, a).pk, a).pk = packages
          /\ \A a \in EntityNativeArgs :
                toggle_native(toggle_native(natives, a).nt, a).nt = natives)

\* the same native was toggled twice in a row and carries a constraint list
C19_Witness ==
    /\ last.op = "toggle_native" /\ last.ret
    /\ prev.op = "toggle_native" /\ prev.a = last.a
    /\ \E i \in NativeMatches(natives, last.a) :
          i = First(NativeMatches(natives, last.a))
          /\ Truthy(natives[i].load_before) /\ natives[i].enabled

\* absent and empty lists are the same list
SameList(x, y) == IF Truthy(x) THEN x = y ELSE ~Truthy(y)

C21_Claimed ==
    (last.op = "load_config" /\ ~last.ret) => (packages = <<>> /\ natives = <<>>)

\* C22 as claimed: whenever save_config returns False, the content of the
\* profile file equals its content before the call.
C22_Claimed == [][~last'.ret => config_file' = config_file]_vars

\* no native is designated by the name, by the match of any native operation
NoNativeMatches(a) ==
    /\ NativeMatches(natives, a) = {}
    /\ \A i \in Idx(natives) : ~MatchNative(natives[i], StripExternal(a))

\* the name designates no native, or a disabled one
MissingOrDisabled(a) ==
    \/ NoNativeMatches(a)
    \/ \E i \in Idx(natives) :
          MatchNative(natives[i], StripExternal(a)) /\ ~natives[i].enabled

\* C23: set_force_load_last, clear_force_load_last, toggle_package,
\* set_force_load_first_native, clear_force_load_first_native,
\* set_native_load_early and toggle_native called with a name that matches no
\* entity, and set_specific_dll_order called when either native is missing or
\* disabled, return False and leave both collections unchanged.
C23_FailureHasNoEffect ==
    [][/\ (/\ last'.op \in {"set_force_load_last", "clear_force_load_last",
                            "toggle_package"}
           /\ PackageMatches(packages, last'.a) = {})
          => (~last'.ret /\ packages' = packages /\ natives' = natives)
       /\ (/\ last'.op \in {"set_force_load_first_native",
                            "clear_force_load_first_native",
                            "set_native_load_early", "toggle_native"}
           /\ NoNativeMatches(last'.a))
          => (~last'.ret /\ packages' = packages /\ natives' = natives)
       /\ (/\ last'.op = "set_specific_dll_order"
           /\ (MissingOrDisabled(last'.a) \/ MissingOrDisabled(last'.b)))
          => (~last'.ret /\ packages' = packages /\ natives' = natives)
      ]_vars

\* set_native_load_early failed on a name that matches none of two natives,
\* one of them disabled and one holding a constraint list
C23_Witness ==
    /\ last.op = "set_native_load_early" /\ ~last.ret
    /\ NoNativeMatches(last.a)
    /\ Len(natives) = 2
    /\ \E i \in Idx(natives) : ~natives[i].enabled
    /\ \E i \in Idx(natives) : Truthy(natives[i].load_before)
    /\ \E i \in Idx(packages) : Truthy(packages[i].load_after)

\* C24 as claimed: while ModGameLaunchThread.run runs it only reads the
\* persisted configuration: no step of it writes the profile file or changes
\* the packages / natives collections.
C24_Claimed ==
    [][last'.op = "ModGameLaunchThread.run"
          => (config_file' = config_file /\ packages' = packages /\ natives' = natives)
      ]_vars

\* the enabled packages other than the one the name designates
OtherEnabledPackages(a) ==
    {i \in Idx(packages) : packages[i].enabled /\ packages[i].id # StripExternal(a)}

\* those of them that the load_after of package x names
NamedOthers(a, x) ==
    {i \in OtherEnabledPackages(a) : packages[i].id \in DepIds(packages[x].load_after)}

\* C25: is_force_load_last(X) returns true exactly when X has a non-empty
\* load_after, n >= 1 other packages are enabled, and the number k of other
\* enabled packages named in X.load_after satisfies k >= 1 if n <= 3, or
\* 2*k >= n if n > 3; it returns false otherwise, also for an unknown X.
C25_ForceLastDetection ==
    last.op = "is_force_load_last" =>
        LET M == PackageMatches(packages, last.a)
            n == Cardinality(OtherEnabledPackages(last.a))
            k == Cardinality(NamedOthers(last.a, First(M)))
        IN  last.ret = (/\ M # {}
                        /\ packages[First(M)].load_after.some
                        /\ packages[First(M)].load_after.items # <<>>
                        /\ n >= 1
                        /\ IF n <= 3 THEN k >= 1 ELSE 2 * k >= n)

\* a package whose load_after names two of five other enabled packages is not
\* recognised
C25_Witness ==
    /\ last.op = "is_force_load_last" /\ ~last.ret
    /\ PackageMatches(packages, last.a) # {}
    /\ Cardinality(OtherEnabledPackages(last.a)) = 5
    /\ Cardinality(NamedOthers(last.a, First(PackageMatches(packages, last.a)))) = 2

\* C26 as claimed: immediately after set_force_load_first_native(X) returned
\* true while at least one other native is enabled,
\* is_force_load_first_native(X) returns true.
C26_Claimed ==
    (/\ last.op = "set_force_load_first_native" /\ last.ret
     /\ \E i \in Idx(natives) : i # Target(last.a) /\ natives[i].enabled)
    => is_force_load_first_native(natives, last.a)

\* C27 as claimed: once set_force_load_last(X) has returned true, and until
\* clear_force_load_last(X), the removal of X or a set_force_load_last on
\* another package, in every state reached by enable steps (add_package then
\* add_to_load_dependencies) and disable steps (remove_package then
\* update_load_dependencies) on other packages in which another package is
\* enabled, is_force_load_last(X) is true, also when X was set while it was
\* the only package or the other packages dropped to zero in between.
C27_Claimed ==
    (track.phase = "marked" /\ OtherEnabled(packages, track.holder))
    => is_force_load_last(packages, track.holder)

\* C28 as claimed: every handler of the page that enables, disables or removes
\* an entity runs the reconcile step before it returns, so that between
\* handlers no constraint list names an entity that is not in the
\* configuration.
C28_Claimed ==
    LET package_ids == {packages[i].id : i \in Idx(packages)}
        native_ids == {PathName(natives[i].path) : i \in Idx(natives)}
    IN  /\ \A i \in Idx(packages) :
              /\ DepIds(packages[i].load_after) \subseteq package_ids
              /\ DepIds(packages[i].load_before) \subseteq package_ids
        /\ \A i \in Idx(natives) :
              /\ DepIds(natives[i].load_after) \subseteq native_ids
              /\ DepIds(natives[i].load_before) \subseteq native_ids

\* C29 as claimed: after every handler of the page that changed the
\* collections (toggle_package, toggle_native, set / clear force-last,
\* set / clear force-first, toggle_load_early, clear_all_mods,
\* remove_external_mod, remove_external_dll) and whose saves succeeded, the
\* profile file equals the serialization of the enabled entities in memory.
C29_Claimed ==
    [][(/\ last'.op \in {"ModsPage.toggle_package", "ModsPage.toggle_native",
                         "ModsPage.set_force_load_last",
                         "ModsPage.clear_force_load_last",
                         "ModsPage.set_force_load_first_native",
                         "ModsPage.clear_force_load_first_native",
                         "ModsPage.toggle_load_early", "ModsPage.clear_all_mods",
                         "ModsPage.remove_external_mod",
                         "ModsPage.remove_external_dll"}
        /\ last'.ret
        /\ (packages' # packages \/ natives' # natives))
       => config_file' = _write_custom_toml(save_config(packages', natives'))
      ]_vars

\* the signals of the launch thread: the completion signals and the others
CompletedSignals ==
    {i \in Idx(launch_thread.signals) :
        launch_thread.signals[i] \in {"launch_completed_true", "launch_completed_false"}}
StatusSignals ==
    SelectSeq(launch_thread.signals,
              LAMBDA s : s \notin {"launch_completed_true", "launch_completed_false"})
StatusOrder ==
    <<"saving_config", "creating_script", "cleaning_processes", "launching_game">>

LaunchProtocol ==
    /\ Cardinality(CompletedSignals) = IF launch_thread.pc = "done" THEN 1 ELSE 0
    /\ CompletedSignals \subseteq {Len(launch_thread.signals)}
    /\ "launch_completed_true" \in {launch_thread.signals[i] : i \in CompletedSignals}
          => (launch_thread.saved /\ launch_thread.script /\ launch_thread.returned)
    /\ Len(StatusSignals) <= Len(StatusOrder)
    /\ StatusSignals = SubSeq(StatusOrder, 1, Len(StatusSignals))
    /\ launch_thread.launched => (launch_thread.saved /\ launch_thread.script)

\* C30: every execution of ModGameLaunchThread.run emits launch_completed
\* exactly once, as its last signal; success is true only if save_config
\* returned true, the script was created and safe_launch_game returned without
\* an exception; the status_update signals come in the order saving config,
\* creating script, cleaning processes, launching game; the game is never
\* launched after a failed save or a failed script creation.
C30_LaunchProtocol ==
    /\ []LaunchProtocol
    /\ (launch_thread.pc = "game_path") ~> (launch_thread.pc = "done")

\* a run that went through every step and reported success
C30_Witness ==
    /\ launch_thread.pc = "done"
    /\ launch_thread.signals = StatusOrder \o <<"launch_completed_true">>
    /\ launch_thread.launched

\* C31 as claimed: in ModGameLaunchThread.run, safe_launch_game is invoked only
\* after cleanup_game_processes has finished, whatever the cleanup takes, so
\* that the cleanup never runs while or after the game is launched.
C31_Claimed ==
    launch_thread.launched => launch_thread.cleanup = "finished"

\* the handlers of the page that change the collections and save
PageSaves ==
    {"ModsPage.toggle_package", "ModsPage.toggle_native",
     "ModsPage.set_force_load_last", "ModsPage.clear_force_load_last",
     "ModsPage.set_force_load_first_native",
     "ModsPage.clear_force_load_first_native"}

\* C32 as claimed: for every interleaving of the handlers of the page that
\* change and save with the save_config() of the launch thread, no two
\* save_config() executions overlap, and the profile file is the serialization
\* of one single in-memory state, never the mixed output of two writers.
C32_Claimed ==
    /\ [][last'.op \in PageSaves => launch_thread.pc # "save_write"]_vars
    /\ [](config_file.kind # "mixed")

\* C33 as claimed: launch_game never starts a second ModGameLaunchThread, nor
\* replaces the reference to the running one, while a thread started before
\* has not yet emitted launch_completed.
C33_Claimed ==
    [][(last'.op = "ModsPage.launch_game" /\ last'.ret)
          => launch_thread.pc \in {"idle", "done"}]_vars

\* the registry entries whose path is not among the existing paths fs
MissingNames(ext, fs) == {name \in DOMAIN ext : ext[name] \notin fs}

\* map `after` is map `before` without the names of `gone`
Restricted(after, before, gone) ==
    /\ DOMAIN after = DOMAIN before \ gone
    /\ \A x \in DOMAIN after : after[x] = before[x]

\* C34: with the registry saves succeeding, after
\* cleanup_missing_external_mods() the registry contains exactly the entries
\* whose path exists (get_missing_external_mods returns two empty lists), the
\* entries with existing paths and their comments are untouched, and the
\* returned lists are exactly the names that were removed.
C34_CleanupExact ==
    [][(last'.op = "cleanup_missing_external_mods" /\ last'.a[2] = "saved") =>
          LET fs == FileSystems[last'.a[1]]
              gone_packages == MissingNames(external_packages, fs)
              gone_natives == MissingNames(external_natives, fs)
          IN  /\ Restricted(external_packages', external_packages, gone_packages)
              /\ Restricted(external_natives', external_natives, gone_natives)
              /\ \A x \in DOMAIN external_packages' : external_packages'[x] \in fs
              /\ \A x \in DOMAIN external_natives' : external_natives'[x] \in fs
              /\ get_missing_external_mods(external_packages', external_natives', fs)
                    = [packages |-> {}, natives |-> {}]
              /\ \A x \in DOMAIN mod_comments \ gone_packages :
                    x \in DOMAIN mod_comments' /\ mod_comments'[x] = mod_comments[x]
              /\ \A x \in DOMAIN native_comments \ gone_natives :
                    x \in DOMAIN native_comments' /\ native_comments'[x] = native_comments[x]
              /\ DOMAIN mod_comments' \subseteq DOMAIN mod_comments
              /\ DOMAIN native_comments' \subseteq DOMAIN native_comments
              /\ {<<last'.b[i]>> : i \in Idx(last'.b)} = gone_packages \cup gone_natives
      ]_vars

\* a cleanup removed a package and a DLL and returned their names, while an
\* entry whose path exists and comments were kept
C34_Witness ==
    /\ last.op = "cleanup_missing_external_mods" /\ last.a[2] = "saved"
    /\ last.b = <<"D", "e.dll">>
    /\ external_natives # EmptyDict
    /\ \A x \in DOMAIN external_natives : external_natives[x] \in FileSystems[last.a[1]]
    /\ mod_comments # EmptyDict

\* C35 as claimed: whenever add_external_package, add_external_native,
\* remove_external_package or remove_external_native reports failure, also
\* when persisting the registry fails, the registry maps and the comment maps
\* are the same as before the call.
C35_Claimed ==
    [][(/\ last'.op \in {"add_external_package", "add_external_native",
                         "remove_external_package", "remove_external_native"}
        /\ ~last'.ret)
       => UNCHANGED <<external_packages, external_natives, mod_comments,
                      native_comments>>]_vars

\* the file names of the DLLs inside mods_dir: at its top level and inside its
\* mod folders of every type
InternalDllNames ==
    UNION {IF item.type = "file" THEN {<<item.name>>} ELSE {<<d>> : d \in item.dlls} :
           item \in ModsDir}

\* C36 as claimed: add_external_native returns failure and leaves the registry
\* unchanged when the file name of the DLL equals the file name of an internal
\* DLL (directly in the Mods directory or inside any mod folder, mixed-type
\* mods included) or of an external DLL already registered.
C36_Claimed ==
    [][(/\ last'.op = "add_external_native"
        /\ PathName(last'.a) \in InternalDllNames \cup DOMAIN external_natives)
       => (~last'.ret /\ external_natives' = external_natives)]_vars

\* C37: calling update_load_dependencies() twice in a row yields the same
\* packages and natives, every constraint list included and emptied lists
\* collapsed to absent, as calling it once.
C37_ReconcileIdempotent ==
    last.op = "update_load_dependencies" =>
        update_load_dependencies(packages, natives) = [pk |-> packages, nt |-> natives]

\* update_load_dependencies() ran on a loaded profile from which a package
\* was removed: constraints on the removed package are gone, others remain
C37_Witness ==
    /\ last.op = "update_load_dependencies"
    /\ prev.op = "remove_package" /\ prev.ret
    /\ \E i \in Idx(packages) : Truthy(packages[i].load_after)
    /\ \E i \in Idx(packages) : ~packages[i].load_after.some
    /\ \E i \in Idx(natives) : Truthy(natives[i].load_before)
    /\ \A i \in Idx(packages) : StripExternal(prev.a) \notin DepIds(packages[i].load_after)

====
